---- MODULE Spec2Model ----
(***************************************************************************)
(* Window & position maintenance subsystem of the WeCom RPA service:       *)
(* the WeComGuard daemon (start / stop / _run / tick), the RuntimeContext  *)
(* cache it writes, and SendMessageAction.execute, which reads that cache. *)
(*                                                                         *)
(* Python's None is the empty sequence <<>>, a present value v is <<v>>.   *)
(* time.time() is the variable clock, counted in seconds.                  *)
(***************************************************************************)
EXTENDS Integers, Sequences, FiniteSets, TLC

None == <<>>
Some(v) == <<v>>
IsNone(o) == o = <<>>
Val(o) == o[1]

(* ---------------------------------------------------------------- bounds *)
\* the instants at which the clock is read, in seconds; the clock visits the
\* first MaxInstants of them
Instants == <<10, 20, 35, 51, 70, 90>>
MaxInstants == 3
\* SendMessageAction.execute calls the request thread makes
MaxSends == 1
\* Thread objects the model can hold at once
MaxThreads == 2

\* settings.py: WECOM_GUARD_LOCATE_INTERVAL_SEC
WECOM_GUARD_LOCATE_INTERVAL_SEC == 15

Threads == 1..MaxThreads
Callers == 1..2

\* what a screen-size probe can return
Sizes == {None, Some(<<1920, 1080>>)}
\* bounding boxes the matcher can report for the two tracked targets
InputBoxes == {[x |-> 100, y |-> 900, width |-> 200, height |-> 40]}
SendBoxes == {[x |-> 1000, y |-> 900, width |-> 100, height |-> 40],
              [x |-> 1001, y |-> 901, width |-> 101, height |-> 41]}
\* results of a placement call: (ok, err)
PlacementResults == {"ok", "invalid_handle", "verify_failed"}

\* The environment of a run: whether the controller offers describe_window, and
\* the answers each collaborator can give.
\* any desktop: the window comes and goes and is placed anyhow
FullEnv(describe) ==
    [has_describe |-> describe, sizes |-> Sizes, found |-> BOOLEAN,
     is_zoomed |-> BOOLEAN, is_topmost |-> BOOLEAN, placement |-> PlacementResults]
\* the window, when it is there, stays maximized and topmost
SteadyEnv ==
    [has_describe |-> TRUE, sizes |-> {Some(<<1920, 1080>>)}, found |-> BOOLEAN,
     is_zoomed |-> {TRUE}, is_topmost |-> {TRUE}, placement |-> {"ok"}]
\* the target application is not running: no window is ever found
AbsentEnv ==
    [has_describe |-> TRUE, sizes |-> {Some(<<1920, 1080>>)}, found |-> {FALSE},
     is_zoomed |-> {TRUE}, is_topmost |-> {TRUE}, placement |-> {"ok"}]

(* -------------------------------------------------------- RuntimeContext *)
\* Python's `a or b` on a number: a unless it is falsy (0)
OrElse(a, b) == IF a = 0 THEN b ELSE a

NewContext ==
    [p_screen_size |-> None, l_screen_size |-> None,
     input_center_position |-> None, send_button_position |-> None,
     meta |-> [updated_at |-> None, last_guard_tick_at |-> None,
               last_locate_at |-> None, last_max_top_at |-> None,
               last_error |-> None]]

\* a variant of update_screen_sizes that stores its arguments as given, None too
update_screen_sizes_Overwrite(c, p, l, t) ==
    [c EXCEPT !.p_screen_size = p,
              !.l_screen_size = l,
              !.meta.updated_at = Some(t)]

update_screen_sizes(c, p, l, t) ==
    [c EXCEPT !.p_screen_size = IF IsNone(p) THEN @ ELSE p,
              !.l_screen_size = IF IsNone(l) THEN @ ELSE l,
              !.meta.updated_at = Some(t)]

\* a variant of update_positions that stores its arguments as given, None too
update_positions_Overwrite(c, inp, snd, located_at, t) ==
    [c EXCEPT !.input_center_position = inp,
              !.send_button_position = snd,
              !.meta.last_locate_at = IF IsNone(located_at) THEN @ ELSE located_at,
              !.meta.updated_at = Some(t)]

update_positions(c, inp, snd, located_at, t) ==
    [c EXCEPT !.input_center_position = IF IsNone(inp) THEN @ ELSE inp,
              !.send_button_position = IF IsNone(snd) THEN @ ELSE snd,
              !.meta.last_locate_at = IF IsNone(located_at) THEN @ ELSE located_at,
              !.meta.updated_at = Some(t)]

mark_guard_tick(c, tick_at, t) ==
    [c EXCEPT !.meta.last_guard_tick_at = Some(OrElse(tick_at, t)),
              !.meta.updated_at = Some(t)]

mark_max_top(c, at, t) ==
    [c EXCEPT !.meta.last_max_top_at = Some(OrElse(at, t)),
              !.meta.updated_at = Some(t)]

set_last_error(c, message, t) ==
    [c EXCEPT !.meta.last_error = message,
              !.meta.updated_at = Some(t)]

\* center of a bounding box, as tick and execute compute it
Center(b) == <<b.x + b.width \div 2, b.y + b.height \div 2>>

(* ----------------------------------------------------------------- state *)
VARIABLES
    tnow,           \* index into Instants of the current time
    ctx,            \* the RuntimeContext
    stop_event,     \* WeComGuard._stop_event
    thread,         \* WeComGuard._thread: 0 is None, else a Thread object
    tstate,         \* Thread object -> "free" | "created" | "alive" | "dead"
    env,            \* what the desktop and the controller can answer (fixed)
    wk,             \* Thread object -> the locals of _run / tick running on it
    cpc,            \* caller -> position in start() / stop()
    lastret,        \* caller -> the last call of the caller that returned
    snd,            \* the request thread running SendMessageAction.execute
    lm,             \* a call of PositionLocator.locate_many: its inputs and result
    cap,            \* CAPTURE_LOCK, the screenshot file and the threads using them
    rcl,            \* RuntimeContext._lock and the threads inside its methods
    win,            \* a desktop and the WindowController enumerating its windows
    ff,             \* a call of set_topmost / activate_and_maximize and the input queues
    mt,             \* a call of MaxAndTopAction.execute: what its collaborators answer, its result
    tr,             \* a call of TemplateRepository.get_template_path: the template root, the arguments, the path returned
    cfg,            \* WeComGuard.interval_sec / locate_interval_sec and the worker loop reading them
    lk              \* CAPTURE_LOCK and RuntimeContext._lock together, and the threads taking them

\* the guard, its callers and the send request
gvars == <<tnow, ctx, stop_event, thread, tstate, env, wk, cpc, lastret, snd>>
\* the components studied on their own
parts == <<lm, cap, rcl, win, ff, mt, tr, cfg, lk>>
vars == <<gvars, parts>>

\* a component that takes no part in a specification
Off == [pc |-> "off"]
PartsOff == lm = Off /\ cap = Off /\ rcl = Off /\ win = Off /\ ff = Off /\ mt = Off /\ tr = Off /\ cfg = Off /\ lk = Off

\* time.time()
clock == Instants[tnow]

NoReturn == [op |-> "none", after_stop |-> FALSE]

NewWorker ==
    [pc |-> "loop", now_ts |-> 0, hwnd |-> None, info |-> None,
     need_maximize |-> FALSE, need_topmost |-> FALSE, should_locate |-> FALSE, input_center |-> None, send_center |-> None,
     calls |-> <<>>, failed |-> {}]

NewSender ==
    [pc |-> "idle", runs |-> 0, input_center |-> None, send_center |-> None,
     send_bbox |-> None, cached |-> FALSE, snap_locate_at |-> None,
     calls |-> <<>>, clicks |-> <<>>, result |-> "none"]

(* ---------------------------------------------------- WeComGuard.start() *)
is_alive(t) == t # 0 /\ tstate[t] = "alive"

is_running == thread # 0 /\ is_alive(thread) /\ ~stop_event

\* a Thread object nothing refers to any more can be collected and its slot reused
Unreferenced(t) == t # thread /\ tstate[t] \in {"free", "created", "dead"}

\* the call of caller c returns: op is what it was, after_stop whether the
\* caller's call before it was a stop() that returned
Return(c, what) ==
    /\ cpc' = [cpc EXCEPT ![c] = "idle"]
    /\ lastret' = [lastret EXCEPT ![c] = [op |-> what, after_stop |-> lastret[c].op = "stop"]]

\* a variant of start() without the test of line 32
StartCheck_NoAliveTest(c) ==
    /\ cpc[c] = "idle"
    /\ cpc' = [cpc EXCEPT ![c] = "start_clear"]
    /\ UNCHANGED <<tnow, ctx, stop_event, thread, tstate, env, wk, snd, lastret, parts>>

\* line 32-33: if self._thread and self._thread.is_alive(): return
StartCheck(c) ==
    /\ cpc[c] = "idle"
    /\ IF is_alive(thread)
         THEN Return(c, "noop")
         ELSE cpc' = [cpc EXCEPT ![c] = "start_clear"] /\ UNCHANGED lastret
    /\ UNCHANGED <<tnow, ctx, stop_event, thread, tstate, env, wk, snd, parts>>

\* line 34: self._stop_event.clear()
StartClear(c) ==
    /\ cpc[c] = "start_clear"
    /\ stop_event' = FALSE
    /\ cpc' = [cpc EXCEPT ![c] = "start_create"]
    /\ UNCHANGED <<tnow, ctx, thread, tstate, env, wk, lastret, snd, parts>>

\* line 35: self._thread = threading.Thread(target=self._run, ...)
StartCreate(c) ==
    /\ cpc[c] = "start_create"
    /\ \E t \in Threads :
         /\ Unreferenced(t) /\ \A u \in 1..(t - 1) : ~Unreferenced(u)
         /\ tstate' = [tstate EXCEPT ![t] = "created"]
         /\ wk' = [wk EXCEPT ![t] = NewWorker]
         /\ thread' = t
    /\ cpc' = [cpc EXCEPT ![c] = "start_run"]
    /\ UNCHANGED <<tnow, ctx, stop_event, env, lastret, snd, parts>>

\* line 36: self._thread.start(); a Thread started twice raises RuntimeError
StartRun(c) ==
    /\ cpc[c] = "start_run"
    /\ IF tstate[thread] = "created"
         THEN /\ tstate' = [tstate EXCEPT ![thread] = "alive"]
              /\ Return(c, "start")
         ELSE /\ UNCHANGED tstate
              /\ Return(c, "raised")
    /\ UNCHANGED <<tnow, ctx, stop_event, thread, env, wk, snd, parts>>

(* ----------------------------------------------------- WeComGuard.stop() *)
\* line 39: self._stop_event.set()
StopSet(c) ==
    /\ cpc[c] = "idle"
    /\ stop_event' = TRUE
    /\ cpc' = [cpc EXCEPT ![c] = "stop_join"]
    /\ UNCHANGED <<tnow, ctx, thread, tstate, env, wk, lastret, snd, parts>>

\* the worker is inside a tick (not sleeping, not at the loop test)
InTick(t) == tstate[t] = "alive" /\ wk[t].pc \notin {"loop", "wait", "exited"}

\* line 40-41: if self._thread: self._thread.join(timeout): returns when the
\* thread has ended, or when the timeout has passed, which takes a tick that
\* outlasts it (the sleep is woken by the event); joining a thread that was
\* never started raises RuntimeError
StopJoin(c) ==
    /\ cpc[c] = "stop_join"
    /\ IF thread = 0
         THEN Return(c, "stop")
         ELSE CASE tstate[thread] = "created" -> Return(c, "raised")
                [] tstate[thread] = "alive" -> InTick(thread) /\ Return(c, "stop")
                [] OTHER -> Return(c, "stop")
    /\ UNCHANGED <<tnow, ctx, stop_event, thread, tstate, env, wk, snd, parts>>

CallerStep ==
    \E c \in Callers :
        \/ StartCheck(c) \/ StartClear(c) \/ StartCreate(c) \/ StartRun(c)
        \/ StopSet(c) \/ StopJoin(c)

(* ------------------------------------------------------ WeComGuard._run() *)
Called(t, name) == Append(wk[t].calls, name)

\* a variant of the loop head that does not read the stop flag (while True)
RunLoop_IgnoreStop(t) ==
    /\ tstate[t] = "alive" /\ wk[t].pc = "loop"
    /\ wk' = [wk EXCEPT ![t] = [NewWorker EXCEPT !.pc = "mark", !.now_ts = OrElse(clock, clock)]]
    /\ UNCHANGED <<tnow, ctx, stop_event, thread, tstate, env, cpc, lastret, snd, parts>>

\* line 54-55: while not self._stop_event.is_set(): start = time.time()
RunLoop(t) ==
    /\ tstate[t] = "alive" /\ wk[t].pc = "loop"
    /\ IF stop_event
         THEN /\ tstate' = [tstate EXCEPT ![t] = "dead"]
              /\ wk' = [wk EXCEPT ![t] = [NewWorker EXCEPT !.pc = "exited"]]
         ELSE /\ wk' = [wk EXCEPT ![t] = [NewWorker EXCEPT !.pc = "mark", !.now_ts = OrElse(clock, clock)]]
              /\ UNCHANGED tstate
    /\ UNCHANGED <<tnow, ctx, stop_event, thread, env, cpc, lastret, snd, parts>>

\* a variant of _run without the try/except: the exception ends the thread
RunCatch_Propagate(t) ==
    /\ tstate[t] = "alive" /\ wk[t].pc = "raised"
    /\ tstate' = [tstate EXCEPT ![t] = "dead"]
    /\ wk' = [wk EXCEPT ![t] = [NewWorker EXCEPT !.pc = "exited"]]
    /\ UNCHANGED <<tnow, ctx, stop_event, thread, env, cpc, lastret, snd, parts>>

\* line 58-60: except Exception: self.context.set_last_error(f"{type(exc).__name__}: {exc}")
RunCatch(t) ==
    /\ tstate[t] = "alive" /\ wk[t].pc = "raised"
    /\ ctx' = set_last_error(ctx, Some("RuntimeError: fault"), clock)
    /\ wk' = [wk EXCEPT ![t] = [NewWorker EXCEPT !.pc = "wait"]]
    /\ UNCHANGED <<tnow, stop_event, thread, tstate, env, cpc, lastret, snd, parts>>

\* line 61-62: the tick returned (its locals are gone); elapsed and sleep_sec
\* are computed
RunElapsed(t) ==
    /\ tstate[t] = "alive" /\ wk[t].pc = "returned"
    /\ wk' = [wk EXCEPT ![t] = [NewWorker EXCEPT !.pc = "wait"]]
    /\ UNCHANGED <<tnow, ctx, stop_event, thread, tstate, env, cpc, lastret, snd, parts>>

\* line 63: self._stop_event.wait(timeout=sleep_sec): ends when the event is
\* set or the timeout has passed
RunWait(t) ==
    /\ tstate[t] = "alive" /\ wk[t].pc = "wait"
    /\ wk' = [wk EXCEPT ![t].pc = "loop"]
    /\ UNCHANGED <<tnow, ctx, stop_event, thread, tstate, env, cpc, lastret, snd, parts>>

(* ------------------------------------------------------ WeComGuard.tick() *)
\* the pcs at which tick is inside a collaborator call that can raise
FaultPcs == {"sizes", "find", "describe", "maximize", "topmost", "locate_input", "locate_send"}

CallAt(t) ==
    CASE wk[t].pc = "sizes" -> "screen_size"
      [] wk[t].pc = "find" -> "find_window"
      [] wk[t].pc = "describe" -> "describe_window"
      [] wk[t].pc = "maximize" -> "activate_and_maximize"
      [] wk[t].pc = "topmost" -> "set_topmost"
      [] OTHER -> "locate"

\* the collaborator called at this step raises: the exception leaves tick
TickRaise(t) ==
    /\ tstate[t] = "alive" /\ wk[t].pc \in FaultPcs
    /\ wk[t].pc = "describe" => env.has_describe
    /\ wk[t].pc = "maximize" => wk[t].need_maximize
    /\ wk[t].pc = "topmost" => wk[t].need_topmost
    /\ wk' = [wk EXCEPT ![t].pc = "raised", ![t].calls = Called(t, CallAt(t))]
    /\ UNCHANGED <<tnow, ctx, stop_event, thread, tstate, env, cpc, lastret, snd, parts>>

\* line 69: self.context.mark_guard_tick(tick_at=now_ts)
TickMark(t) ==
    /\ tstate[t] = "alive" /\ wk[t].pc = "mark"
    /\ ctx' = mark_guard_tick(ctx, wk[t].now_ts, clock)
    /\ wk' = [wk EXCEPT ![t].pc = "sizes"]
    /\ UNCHANGED <<tnow, stop_event, thread, tstate, env, cpc, lastret, snd, parts>>

\* line 70: self.context.update_screen_sizes(get_screen_size_physical(), get_screen_size_logical())
TickSizes(t) ==
    /\ tstate[t] = "alive" /\ wk[t].pc = "sizes"
    /\ \E p \in env.sizes, l \in env.sizes : ctx' = update_screen_sizes(ctx, p, l, clock)
    /\ wk' = [wk EXCEPT ![t].pc = "find", ![t].calls = Called(t, "screen_size")]
    /\ UNCHANGED <<tnow, stop_event, thread, tstate, env, cpc, lastret, snd, parts>>

\* a variant of line 72-75 without the early return
TickFind_NoReturn(t) ==
    /\ tstate[t] = "alive" /\ wk[t].pc = "find"
    /\ \E found \in env.found :
         /\ ctx' = IF found THEN ctx
                            ELSE set_last_error(ctx, Some("wecom_window_not_found"), clock)
         /\ wk' = [wk EXCEPT ![t].pc = "describe",
                             ![t].hwnd = IF found THEN Some(1) ELSE None,
                             ![t].calls = Called(t, "find_window"),
                             ![t].failed = IF found THEN @ ELSE @ \cup {"find_window"}]
    /\ UNCHANGED <<tnow, stop_event, thread, tstate, env, cpc, lastret, snd, parts>>

\* line 72-75: hwnd, _ = find_window(); if not hwnd: set_last_error("wecom_window_not_found"); return
TickFind(t) ==
    /\ tstate[t] = "alive" /\ wk[t].pc = "find"
    /\ \E found \in env.found :
         IF found
           THEN /\ wk' = [wk EXCEPT ![t].pc = "describe", ![t].hwnd = Some(1),
                                     ![t].calls = Called(t, "find_window")]
                /\ UNCHANGED ctx
           ELSE /\ ctx' = set_last_error(ctx, Some("wecom_window_not_found"), clock)
                /\ wk' = [wk EXCEPT ![t].pc = "returned", ![t].calls = Called(t, "find_window"),
                                     ![t].failed = @ \cup {"find_window"}]
    /\ UNCHANGED <<tnow, stop_event, thread, tstate, env, cpc, lastret, snd, parts>>

\* line 79-83: need_maximize / need_topmost from info
NeedMaximize(info) == IF IsNone(info) THEN TRUE ELSE ~Val(info).is_zoomed
NeedTopmost(info) == IF IsNone(info) THEN TRUE ELSE ~Val(info).is_topmost

\* line 77-83: info = describe(hwnd) if callable(describe) else None
TickDescribe(t) ==
    /\ tstate[t] = "alive" /\ wk[t].pc = "describe"
    /\ \E info \in IF env.has_describe
                     THEN {Some([is_zoomed |-> z, is_topmost |-> m]) :
                             z \in env.is_zoomed, m \in env.is_topmost}
                     ELSE {None} :
         wk' = [wk EXCEPT ![t].pc = "maximize",
                          ![t].info = info,
                          ![t].need_maximize = NeedMaximize(info),
                          ![t].need_topmost = NeedTopmost(info),
                          ![t].calls = IF env.has_describe
                                         THEN Called(t, "describe_window")
                                         ELSE wk[t].calls]
    /\ UNCHANGED <<tnow, ctx, stop_event, thread, tstate, env, cpc, lastret, snd, parts>>

ErrText(r) == IF r = "invalid_handle" THEN "IsWindow=false (1400)" ELSE "verify failed"

\* a variant of line 85-92 that returns from the tick when the call failed
TickMaximize_ReturnOnFailure(t) ==
    /\ tstate[t] = "alive" /\ wk[t].pc = "maximize"
    /\ IF wk[t].need_maximize
         THEN \E r \in env.placement :
                /\ ctx' = IF r = "ok"
                            THEN mark_max_top(ctx, wk[t].now_ts, clock)
                            ELSE set_last_error(ctx, Some("activate_and_maximize_failed: " \o ErrText(r)), clock)
                /\ wk' = [wk EXCEPT ![t].pc = IF r = "ok" THEN "topmost" ELSE "returned",
                                    ![t].calls = Called(t, "activate_and_maximize"),
                                    ![t].failed = IF r = "ok" THEN @ ELSE @ \cup {"activate_and_maximize"}]
         ELSE /\ wk' = [wk EXCEPT ![t].pc = "topmost"]
              /\ UNCHANGED ctx
    /\ UNCHANGED <<tnow, stop_event, thread, tstate, env, cpc, lastret, snd, parts>>

\* line 85-92: if need_maximize: ok, err = activate_and_maximize(hwnd) ...
TickMaximize(t) ==
    /\ tstate[t] = "alive" /\ wk[t].pc = "maximize"
    /\ IF wk[t].need_maximize
         THEN \E r \in env.placement :
                /\ ctx' = IF r = "ok"
                            THEN mark_max_top(ctx, wk[t].now_ts, clock)
                            ELSE set_last_error(ctx, Some("activate_and_maximize_failed: " \o ErrText(r)), clock)
                /\ wk' = [wk EXCEPT ![t].pc = "topmost", ![t].calls = Called(t, "activate_and_maximize"),
                                    ![t].failed = IF r = "ok" THEN @ ELSE @ \cup {"activate_and_maximize"}]
         ELSE /\ wk' = [wk EXCEPT ![t].pc = "topmost"]
              /\ UNCHANGED ctx
    /\ UNCHANGED <<tnow, stop_event, thread, tstate, env, cpc, lastret, snd, parts>>

\* line 94-101: if need_topmost: ok, err = set_topmost(hwnd) ...
TickTopmost(t) ==
    /\ tstate[t] = "alive" /\ wk[t].pc = "topmost"
    /\ IF wk[t].need_topmost
         THEN \E r \in env.placement :
                /\ ctx' = IF r = "ok"
                            THEN mark_max_top(ctx, wk[t].now_ts, clock)
                            ELSE set_last_error(ctx, Some("set_topmost_failed: " \o ErrText(r)), clock)
                /\ wk' = [wk EXCEPT ![t].pc = "staleness", ![t].calls = Called(t, "set_topmost"),
                                    ![t].failed = IF r = "ok" THEN @ ELSE @ \cup {"set_topmost"}]
         ELSE /\ wk' = [wk EXCEPT ![t].pc = "staleness"]
              /\ UNCHANGED ctx
    /\ UNCHANGED <<tnow, stop_event, thread, tstate, env, cpc, lastret, snd, parts>>

\* a variant of line 109 with > in place of >=
ShouldLocate_Strict(snap, now_ts, locate_interval_sec) ==
    \/ IsNone(snap.input_center_position)
    \/ IsNone(snap.send_button_position)
    \/ IsNone(snap.meta.last_locate_at)
    \/ now_ts - Val(snap.meta.last_locate_at) > locate_interval_sec

\* line 105-110: should_locate, from the snapshot and now_ts
ShouldLocate(snap, now_ts, locate_interval_sec) ==
    \/ IsNone(snap.input_center_position)
    \/ IsNone(snap.send_button_position)
    \/ IsNone(snap.meta.last_locate_at)
    \/ now_ts - Val(snap.meta.last_locate_at) >= locate_interval_sec

\* line 103-112: snap = self.context.snapshot(); if not should_locate: return
TickStaleness(t) ==
    /\ tstate[t] = "alive" /\ wk[t].pc = "staleness"
    /\ LET should == ShouldLocate(ctx, wk[t].now_ts, WECOM_GUARD_LOCATE_INTERVAL_SEC)
       IN wk' = [wk EXCEPT ![t].should_locate = should,
                           ![t].pc = IF should THEN "locate_input" ELSE "returned"]
    /\ UNCHANGED <<tnow, ctx, stop_event, thread, tstate, env, cpc, lastret, snd, parts>>

\* line 114, 117-122: input_loc = self.locator.locate("消息输入框"); locate
\* captures the desktop (locator.py line 110) unless it has no template
TickLocateInput(t) ==
    /\ tstate[t] = "alive" /\ wk[t].pc = "locate_input"
    /\ \E c \in {None} \cup {Some(Center(b)) : b \in InputBoxes}, captured \in BOOLEAN :
         /\ ~IsNone(c) => captured
         /\ wk' = [wk EXCEPT ![t].pc = "locate_send", ![t].input_center = c,
                             ![t].calls = Called(t, "locate")
                                            \o IF captured THEN <<"capture_desktop">> ELSE <<>>]
    /\ UNCHANGED <<tnow, ctx, stop_event, thread, tstate, env, cpc, lastret, snd, parts>>

\* line 115, 124-129: send_loc = self.locator.locate("消息发送按钮")
TickLocateSend(t) ==
    /\ tstate[t] = "alive" /\ wk[t].pc = "locate_send"
    /\ \E c \in {None} \cup {Some(Center(b)) : b \in SendBoxes}, captured \in BOOLEAN :
         /\ ~IsNone(c) => captured
         /\ wk' = [wk EXCEPT ![t].pc = "update", ![t].send_center = c,
                             ![t].calls = Called(t, "locate")
                                            \o IF captured THEN <<"capture_desktop">> ELSE <<>>]
    /\ UNCHANGED <<tnow, ctx, stop_event, thread, tstate, env, cpc, lastret, snd, parts>>

\* line 131-136, 138-139: update_positions(...) or set_last_error("locate_failed")
TickUpdate(t) ==
    /\ tstate[t] = "alive" /\ wk[t].pc = "update"
    /\ IF ~IsNone(wk[t].input_center) \/ ~IsNone(wk[t].send_center)
         THEN /\ ctx' = update_positions(ctx, wk[t].input_center, wk[t].send_center,
                                         Some(wk[t].now_ts), clock)
              /\ wk' = [wk EXCEPT ![t].pc = "clear_error"]
         ELSE /\ ctx' = set_last_error(ctx, Some("locate_failed"), clock)
              /\ wk' = [wk EXCEPT ![t].pc = "returned", ![t].failed = @ \cup {"locate"}]
    /\ UNCHANGED <<tnow, stop_event, thread, tstate, env, cpc, lastret, snd, parts>>

\* line 137: self.context.set_last_error(None)
TickClearError(t) ==
    /\ tstate[t] = "alive" /\ wk[t].pc = "clear_error"
    /\ ctx' = set_last_error(ctx, None, clock)
    /\ wk' = [wk EXCEPT ![t].pc = "returned"]
    /\ UNCHANGED <<tnow, stop_event, thread, tstate, env, cpc, lastret, snd, parts>>

\* _run around the tick
LoopStep(t) == RunLoop(t) \/ RunCatch(t) \/ RunElapsed(t) \/ RunWait(t)
\* tick up to find_window
TickHead(t) == TickRaise(t) \/ TickMark(t) \/ TickSizes(t) \/ TickFind(t)
\* tick once a window is found
TickBody(t) ==
    \/ TickDescribe(t) \/ TickMaximize(t) \/ TickTopmost(t) \/ TickStaleness(t)
    \/ TickLocateInput(t) \/ TickLocateSend(t) \/ TickUpdate(t) \/ TickClearError(t)

WorkerStep(t) == LoopStep(t) \/ TickHead(t) \/ TickBody(t)

(* ------------------------------------------------ SendMessageAction.execute *)
Did(name) == Append(snd.calls, name)
Finish(result) == snd' = [snd EXCEPT !.pc = "done", !.result = result]

\* a variant of the first step that locates whatever the cache holds
SendSnapshot_AlwaysLocate ==
    /\ snd.pc = "idle" /\ snd.runs < MaxSends
    /\ LET hit == ~IsNone(ctx.input_center_position) /\ ~IsNone(ctx.send_button_position)
       IN snd' = [NewSender EXCEPT !.runs = snd.runs + 1,
                                   !.input_center = ctx.input_center_position,
                                   !.send_center = ctx.send_button_position,
                                   !.snap_locate_at = ctx.meta.last_locate_at,
                                   !.cached = hit,
                                   !.pc = "locate"]
    /\ UNCHANGED <<tnow, ctx, stop_event, thread, tstate, env, wk, cpc, lastret, parts>>

\* line 63-66: snap = self.context.snapshot(); if input_center and send_center
SendSnapshot ==
    /\ snd.pc = "idle" /\ snd.runs < MaxSends
    /\ LET hit == ~IsNone(ctx.input_center_position) /\ ~IsNone(ctx.send_button_position)
       IN snd' = [NewSender EXCEPT !.runs = snd.runs + 1,
                                   !.input_center = ctx.input_center_position,
                                   !.send_center = ctx.send_button_position,
                                   !.snap_locate_at = ctx.meta.last_locate_at,
                                   !.cached = hit,
                                   !.pc = IF hit THEN "focus" ELSE "locate"]
    /\ UNCHANGED <<tnow, ctx, stop_event, thread, tstate, env, wk, cpc, lastret, parts>>

\* a variant that puts the input box over the send button
DerivedInputCenter_Overlap(b) ==
    LET data_w == IF b.width * 2 > 1 THEN b.width * 2 ELSE 1
        data_h == IF b.height > 1 THEN b.height ELSE 1
    IN <<b.x + data_w \div 2, b.y + data_h \div 2>>

\* the input box derived from the send button's bbox, line 99-121
DerivedInputCenter(b) ==
    LET data_w == IF b.width * 2 > 1 THEN b.width * 2 ELSE 1
        data_h == IF b.height > 1 THEN b.height ELSE 1
        data_x == b.x - data_w
        data_y == b.y
    IN <<data_x + data_w \div 2, data_y + data_h \div 2>>

\* line 76-121: locate_many(["消息发送按钮"]); without a bbox and without a
\* cached send position it returns failure; without a bbox but with a cached
\* send position, send_loc.bbox.x raises AttributeError
SendLocate ==
    /\ snd.pc = "locate"
    /\ \E bbox \in {None} \cup {Some(b) : b \in SendBoxes} :
         IF ~IsNone(bbox)
           THEN snd' = [snd EXCEPT !.pc = "write", !.send_bbox = bbox,
                                   !.send_center = Some(Center(Val(bbox))),
                                   !.input_center = Some(DerivedInputCenter(Val(bbox))),
                                   !.calls = Did("locate_many")]
           ELSE snd' = [snd EXCEPT !.pc = "done", !.calls = Did("locate_many"),
                                   !.result = IF IsNone(snd.send_center) THEN "failure" ELSE "raised"]
    /\ UNCHANGED <<tnow, ctx, stop_event, thread, tstate, env, wk, cpc, lastret, parts>>

\* line 140-146: self.context.update_positions(..., located_at=time.time(), ...)
SendWrite ==
    /\ snd.pc = "write"
    /\ ctx' = update_positions(ctx, snd.input_center, snd.send_center, Some(clock), clock)
    /\ snd' = [snd EXCEPT !.pc = "focus"]
    /\ UNCHANGED <<tnow, stop_event, thread, tstate, env, wk, cpc, lastret, parts>>

\* a variant of the input click that goes on to the send button when the click raises
SendFocus_IgnoreFailure ==
    /\ snd.pc = "focus"
    /\ \/ \E d \in {<<0, 0>>, <<5, 0>>, <<-3, 4>>} :
            snd' = [snd EXCEPT !.pc = "send", !.calls = Did("click_input"),
                               !.clicks = Append(@, <<Val(snd.input_center)[1] + d[1],
                                                      Val(snd.input_center)[2] + d[2]>>)]
       \/ snd' = [snd EXCEPT !.pc = "send"]
    /\ UNCHANGED <<tnow, ctx, stop_event, thread, tstate, env, wk, cpc, lastret, parts>>

\* line 148-162, 194-205: click the input center, at the center itself
\* (INPUT_CLICK_RADIUS_PX <= 0) or at a point within the radius, 5 by
\* default, around it; an exception returns failure
SendFocus ==
    /\ snd.pc = "focus"
    /\ \/ \E d \in {<<0, 0>>, <<5, 0>>, <<-3, 4>>} :
            snd' = [snd EXCEPT !.pc = "send", !.calls = Did("click_input"),
                               !.clicks = Append(@, <<Val(snd.input_center)[1] + d[1],
                                                      Val(snd.input_center)[2] + d[2]>>)]
       \/ Finish("failure")
    /\ UNCHANGED <<tnow, ctx, stop_event, thread, tstate, env, wk, cpc, lastret, parts>>

\* line 164-178: click the send button (alt+s without one); an exception returns failure
SendClick ==
    /\ snd.pc = "send"
    /\ \/ snd' = [snd EXCEPT !.pc = "shot",
                            !.calls = Did(IF IsNone(snd.send_center) THEN "press_alt_s" ELSE "click_send"),
                            !.clicks = IF IsNone(snd.send_center) THEN @ ELSE Append(@, Val(snd.send_center))]
       \/ Finish("failure")
    /\ UNCHANGED <<tnow, ctx, stop_event, thread, tstate, env, wk, cpc, lastret, parts>>

\* line 180-189: the after-screenshot decides the result
SendShot ==
    /\ snd.pc = "shot"
    /\ \E captured \in BOOLEAN :
         snd' = [snd EXCEPT !.pc = "done", !.calls = Did("capture_desktop"),
                            !.result = IF captured THEN "success" ELSE "failure"]
    /\ UNCHANGED <<tnow, ctx, stop_event, thread, tstate, env, wk, cpc, lastret, parts>>

\* execute has returned; the request ends
SendReturn ==
    /\ snd.pc = "done"
    /\ snd' = [NewSender EXCEPT !.runs = snd.runs]
    /\ UNCHANGED <<tnow, ctx, stop_event, thread, tstate, env, wk, cpc, lastret, parts>>

SenderStep ==
    \/ SendSnapshot \/ SendLocate \/ SendWrite \/ SendFocus \/ SendClick \/ SendShot
    \/ SendReturn

\* time passes
Advance ==
    /\ tnow < MaxInstants
    /\ tnow' = tnow + 1
    /\ UNCHANGED <<ctx, stop_event, thread, tstate, env, wk, cpc, lastret, snd, parts>>

(* --------------------------------------------------------- specifications *)
\* the service after startup(): the guard has been started
Init ==
    /\ tnow = 1
    /\ ctx = NewContext
    /\ stop_event = FALSE
    /\ thread = 1
    /\ tstate = [t \in Threads |-> IF t = 1 THEN "alive" ELSE "free"]
    /\ env = SteadyEnv
    /\ wk = [t \in Threads |-> NewWorker]
    /\ lastret = [c \in Callers |-> NoReturn]
    /\ cpc = [c \in Callers |-> "off"]
    /\ snd = NewSender
    /\ PartsOff

Next ==
    \/ \E t \in Threads : WorkerStep(t)
    \/ SenderStep
    \/ Advance

Spec == Init /\ [][Next]_vars

\* the guard alone on any desktop
InitTick ==
    /\ tnow = 1
    /\ ctx = NewContext
    /\ stop_event = FALSE
    /\ thread = 1
    /\ tstate = [t \in Threads |-> IF t = 1 THEN "alive" ELSE "free"]
    /\ env \in {FullEnv(TRUE), FullEnv(FALSE)}
    /\ wk = [t \in Threads |-> NewWorker]
    /\ lastret = [c \in Callers |-> NoReturn]
    /\ cpc = [c \in Callers |-> "off"]
    /\ snd = NewSender
    /\ PartsOff

NextTick ==
    \/ \E t \in Threads : WorkerStep(t)
    \/ Advance

TickSpec == InitTick /\ [][NextTick]_vars
FairTickSpec == TickSpec /\ WF_vars(\E t \in Threads : WorkerStep(t))

\* the guard's owner and another request thread call start() and stop() while
\* the target application is not running
InitLife ==
    /\ tnow = 1
    /\ ctx = NewContext
    /\ stop_event = FALSE
    /\ thread = 0
    /\ tstate = [t \in Threads |-> "free"]
    /\ env = AbsentEnv
    /\ wk = [t \in Threads |-> NewWorker]
    /\ lastret = [c \in Callers |-> NoReturn]
    /\ cpc = [c \in Callers |-> "idle"]
    /\ snd = NewSender
    /\ PartsOff

\* without a window the tick ends at find_window
LifeWorkerStep(t) ==
    \/ RunLoop(t) \/ RunElapsed(t) \/ RunWait(t)
    \/ TickMark(t) \/ TickSizes(t) \/ TickFind(t)

NextLife ==
    \/ CallerStep
    \/ \E t \in Threads : LifeWorkerStep(t)

LifeSpec == InitLife /\ [][NextLife]_vars

\* one owner calls start() and stop(), one call after the other
InitSeq ==
    /\ tnow = 1
    /\ ctx = NewContext
    /\ stop_event = FALSE
    /\ thread = 0
    /\ tstate = [t \in Threads |-> "free"]
    /\ env = AbsentEnv
    /\ wk = [t \in Threads |-> NewWorker]
    /\ lastret = [c \in Callers |-> NoReturn]
    /\ cpc = [c \in Callers |-> IF c = 1 THEN "idle" ELSE "off"]
    /\ snd = NewSender
    /\ PartsOff

SeqSpec == InitSeq /\ [][NextLife]_vars
\* every thread that can run is scheduled: the worker keeps taking steps
FairSeqSpec == SeqSpec /\ WF_vars(\E t \in Threads : LifeWorkerStep(t))

(* ================================================================ claims *)
AliveWorkers == {t \in Threads : tstate[t] = "alive"}

\* C1: at most one guard worker thread runs the _run loop at any time, for
\* every interleaving of start() and stop(), concurrent start() calls included.
C1_AtMostOneWorker == Cardinality(AliveWorkers) <= 1

\* C2: once stop() has returned, a start() that returns normally leaves the
\* guard running, also when stop's join timed out on a tick in progress.
C2_RestartRuns ==
    \A c \in Callers :
        (cpc[c] = "idle" /\ lastret[c].after_stop /\ lastret[c].op \in {"start", "noop"})
            => is_running

\* the step in which caller c calls start()
StartCalled(c) ==
    /\ cpc[c] = "idle"
    /\ \/ cpc'[c] = "start_clear"
       \/ cpc'[c] = "idle" /\ lastret'[c] # lastret[c]

\* C3: start() called while the worker is alive and the guard not stopped is a
\* no-op: it returns at once, no thread is created, the stop flag, the thread
\* and the worker are unchanged, and is_running() stays true.
C3_StartNoOp ==
    [][\A c \in Callers :
         (StartCalled(c) /\ is_running) =>
            /\ cpc'[c] = "idle" /\ lastret'[c].op = "noop"
            /\ UNCHANGED <<stop_event, thread, tstate, wk, ctx>>
            /\ is_running']_vars

C3_Witness == \E c \in Callers : cpc[c] = "idle" /\ lastret[c].op = "noop" /\ is_running

\* C4: once stop() has set the stop flag: is_running() is false when stop()
\* has returned; the worker begins no new tick while the flag is set; a thread
\* ends only at the loop test, so a tick in progress runs to its end; and the
\* worker thread eventually ends.
C4_StopStops ==
    /\ [](\A c \in Callers : (cpc[c] = "idle" /\ lastret[c].op = "stop") => ~is_running)
    /\ [][\A t \in Threads :
            /\ (wk[t].pc # "mark" /\ wk'[t].pc = "mark") => ~stop_event
            /\ (tstate[t] = "alive" /\ tstate'[t] # "alive") => wk[t].pc = "loop"]_vars
    /\ (stop_event ~> (AliveWorkers = {}))

C4_Witness ==
    \E c \in Callers :
        /\ cpc[c] = "idle" /\ lastret[c].op = "stop" /\ stop_event
        /\ thread # 0 /\ tstate[thread] = "dead"

\* C5: an exception raised by a collaborator during a tick does not end the
\* guard loop: _run records it in last_error (not null) and sleeps, the thread
\* stays alive, and unless the guard is stopped another tick begins.
C5_FaultDoesNotEndLoop ==
    /\ [][\A t \in Threads :
            (wk[t].pc = "raised" /\ wk'[t].pc # "raised") =>
                /\ wk'[t].pc = "wait" /\ tstate'[t] = "alive"
                /\ ctx'.meta.last_error # None]_vars
    /\ ((\E t \in Threads : wk[t].pc = "raised")
            ~> (stop_event \/ \E t \in Threads : wk[t].pc = "mark"))

C5_Witness ==
    \E t \in Threads :
        /\ tstate[t] = "alive" /\ wk[t].pc = "mark"
        /\ ctx.meta.last_error = Some("RuntimeError: fault")

Has(seq, x) == \E i \in DOMAIN seq : seq[i] = x
Count(seq, x) == Cardinality({i \in DOMAIN seq : seq[i] = x})

\* C6: a tick in which find_window returns no handle sets last_error to
\* "wecom_window_not_found" and returns: its only calls are the screen-size
\* probes and find_window, no step of it changes the cached positions,
\* last_locate_at or last_max_top_at, and last_guard_tick_at holds the tick time.
C6_NoWindowEndsTick ==
    [][\A t \in Threads :
         /\ (wk[t].pc = "find" /\ wk'[t].pc \notin {"find", "raised"} /\ IsNone(wk'[t].hwnd)) =>
                /\ wk'[t].pc = "returned"
                /\ wk'[t].calls = <<"screen_size", "find_window">>
                /\ ctx'.meta.last_error = Some("wecom_window_not_found")
                /\ ctx'.meta.last_guard_tick_at = Some(wk[t].now_ts)
         /\ (wk[t].pc \in {"mark", "sizes", "find"} /\ IsNone(wk'[t].hwnd)) =>
                /\ ctx'.input_center_position = ctx.input_center_position
                /\ ctx'.send_button_position = ctx.send_button_position
                /\ ctx'.meta.last_locate_at = ctx.meta.last_locate_at
                /\ ctx'.meta.last_max_top_at = ctx.meta.last_max_top_at
         /\ (wk[t].pc = "returned" /\ wk'[t].pc # "returned") =>
                wk'[t].pc = "wait" /\ ctx' = ctx]_vars

C6_Witness ==
    \E t \in Threads :
        /\ tstate[t] = "alive" /\ wk[t].pc = "returned" /\ IsNone(wk[t].hwnd)
        /\ ctx.meta.last_error = Some("wecom_window_not_found")
        /\ ~IsNone(ctx.input_center_position) /\ ~IsNone(ctx.send_button_position)
        /\ ~IsNone(ctx.meta.last_max_top_at)
        /\ ctx.meta.last_guard_tick_at = Some(wk[t].now_ts)
        /\ ctx.meta.last_locate_at # Some(wk[t].now_ts)

\* C7: in a tick with a window found and described, activate_and_maximize is
\* called iff the window is described as not maximized and set_topmost iff it
\* is described as not topmost, also when activate_and_maximize failed; a
\* placement call that returns, ok or not, is followed by the next step, up to
\* the staleness test.
C7_PlacementAsDescribed ==
    [][\A t \in Threads :
         /\ ( (wk'[t].pc \in {"staleness", "locate_input", "locate_send", "update", "clear_error"}
                  \/ (wk'[t].pc = "returned" /\ ~IsNone(wk'[t].hwnd)))
              /\ ~IsNone(wk'[t].info) ) =>
                /\ Has(wk'[t].calls, "activate_and_maximize") <=> ~Val(wk'[t].info).is_zoomed
                /\ Has(wk'[t].calls, "set_topmost") <=> ~Val(wk'[t].info).is_topmost
         /\ (wk[t].pc = "maximize" /\ wk'[t].pc \notin {"maximize", "raised"}) => wk'[t].pc = "topmost"
         /\ (wk[t].pc = "topmost" /\ wk'[t].pc \notin {"topmost", "raised"}) => wk'[t].pc = "staleness"]_vars

C7_Witness ==
    \E t \in Threads :
        /\ tstate[t] = "alive" /\ wk[t].pc = "staleness"
        /\ wk[t].info = Some([is_zoomed |-> FALSE, is_topmost |-> FALSE])
        /\ Has(wk[t].calls, "activate_and_maximize") /\ Has(wk[t].calls, "set_topmost")
        /\ ctx.meta.last_error = Some("activate_and_maximize_failed: verify failed")

\* the claim's condition for a locate pass
C8_Due(c, now) ==
    \/ IsNone(c.input_center_position) \/ IsNone(c.send_button_position)
    \/ IsNone(c.meta.last_locate_at)
    \/ now - Val(c.meta.last_locate_at) >= WECOM_GUARD_LOCATE_INTERVAL_SEC

\* C8: in a tick with a window found, the locate pass runs exactly when a
\* cached position is missing, last_locate_at is unset, or
\* now - last_locate_at >= locate_interval_sec; a tick that returns made two
\* locate calls (one per target) if the pass ran and none otherwise.
C8_LocateWhenStale ==
    [][\A t \in Threads :
         /\ (wk[t].pc = "staleness" /\ wk'[t].pc # "staleness") =>
                IF C8_Due(ctx, wk[t].now_ts)
                  THEN wk'[t].pc = "locate_input" /\ wk'[t].should_locate
                  ELSE wk'[t].pc = "returned" /\ ~wk'[t].should_locate
         /\ (wk'[t].pc = "returned" /\ ~IsNone(wk'[t].hwnd)) =>
                Count(wk'[t].calls, "locate") = IF wk'[t].should_locate THEN 2 ELSE 0]_vars

\* both positions cached, age exactly the interval: the pass ran
C8_Witness ==
    \E t \in Threads :
        /\ tstate[t] = "alive" /\ wk[t].pc = "update"
        /\ ~IsNone(ctx.input_center_position) /\ ~IsNone(ctx.send_button_position)
        /\ ~IsNone(ctx.meta.last_locate_at)
        /\ wk[t].now_ts - Val(ctx.meta.last_locate_at) = WECOM_GUARD_LOCATE_INTERVAL_SEC
        /\ Count(wk[t].calls, "locate") = 2

\* C9: the end of a locate pass: with a target located, each located center is
\* written to the cache, a target not located keeps its cached value,
\* last_locate_at becomes the tick time, and last_error is then cleared; with
\* both targets failed, last_error becomes "locate_failed" and the cached
\* positions and last_locate_at stay.
C9_LocatePassResult ==
    [][\A t \in Threads :
         /\ (wk[t].pc = "update" /\ wk'[t].pc # "update") =>
                IF ~IsNone(wk[t].input_center) \/ ~IsNone(wk[t].send_center)
                  THEN /\ ctx'.input_center_position =
                            IF IsNone(wk[t].input_center) THEN ctx.input_center_position
                                                          ELSE wk[t].input_center
                       /\ ctx'.send_button_position =
                            IF IsNone(wk[t].send_center) THEN ctx.send_button_position
                                                         ELSE wk[t].send_center
                       /\ ctx'.meta.last_locate_at = Some(wk[t].now_ts)
                       /\ wk'[t].pc = "clear_error"
                  ELSE /\ ctx'.meta.last_error = Some("locate_failed")
                       /\ ctx'.input_center_position = ctx.input_center_position
                       /\ ctx'.send_button_position = ctx.send_button_position
                       /\ ctx'.meta.last_locate_at = ctx.meta.last_locate_at
                       /\ wk'[t].pc = "returned"
         /\ (wk[t].pc = "clear_error" /\ wk'[t].pc # "clear_error") =>
                /\ ctx'.meta.last_error = None
                /\ ctx'.input_center_position = ctx.input_center_position
                /\ ctx'.send_button_position = ctx.send_button_position
                /\ ctx'.meta.last_locate_at = ctx.meta.last_locate_at
                /\ wk'[t].pc = "returned"]_vars

\* only the send button was located: the cached input position is kept
C9_Witness ==
    \E t \in Threads :
        /\ tstate[t] = "alive" /\ wk[t].pc = "returned" /\ wk[t].should_locate
        /\ IsNone(wk[t].input_center) /\ ~IsNone(wk[t].send_center)
        /\ ~IsNone(ctx.input_center_position)
        /\ ctx.send_button_position = wk[t].send_center
        /\ ctx.meta.last_locate_at = Some(wk[t].now_ts)
        /\ ctx.meta.last_error = None

\* C10: SendMessageAction.execute takes its click positions from the cache
\* (and goes on to click them) only when last_locate_at is set and
\* now - last_locate_at is below the locate refresh interval.
C10_ClicksOnlyFresh ==
    [][(snd.pc = "idle" /\ snd'.pc = "focus" /\ snd'.cached) =>
           /\ ~IsNone(ctx.meta.last_locate_at)
           /\ clock - Val(ctx.meta.last_locate_at) < WECOM_GUARD_LOCATE_INTERVAL_SEC]_vars

(* ------------------------------------------ SendMessageAction.execute *)
\* the point p lies within the click radius (5) of the center c
C32_Around(p, c) ==
    /\ p[1] - c[1] \in -5..5
    /\ p[2] - c[2] \in -5..5

\* C32: with both cached positions present, execute makes no locator call,
\* leaves the cached positions and last_locate_at as they are, and clicks
\* with the cached input position, then the cached send-button position
C32_CacheHitUsesCache ==
    [][(snd' # snd /\ snd'.cached) =>
           /\ ~Has(snd'.calls, "locate_many")
           /\ ctx'.input_center_position = ctx.input_center_position
           /\ ctx'.send_button_position = ctx.send_button_position
           /\ ctx'.meta.last_locate_at = ctx.meta.last_locate_at
           /\ snd.pc = "idle" =>
                 /\ ~IsNone(ctx.input_center_position) /\ ~IsNone(ctx.send_button_position)
                 /\ snd'.input_center = ctx.input_center_position
                 /\ snd'.send_center = ctx.send_button_position
           /\ snd.pc # "idle" =>
                 /\ snd'.input_center = snd.input_center
                 /\ snd'.send_center = snd.send_center
           /\ (snd.pc = "focus" /\ snd'.pc = "send") =>
                 /\ Len(snd'.clicks) = 1
                 /\ C32_Around(snd'.clicks[1], Val(snd.input_center))
           /\ (snd.pc = "send" /\ snd'.pc = "shot") =>
                 /\ Len(snd'.clicks) = 2
                 /\ snd'.clicks[2] = Val(snd.send_center)]_vars

\* a run on the cache ended well after its two clicks
C32_Witness ==
    /\ snd.pc = "done" /\ snd.cached /\ snd.result = "success"
    /\ Len(snd.clicks) = 2 /\ snd.clicks[2] = Val(snd.send_center)
    /\ snd.calls = <<"click_input", "click_send", "capture_desktop">>

C34_NotLocatedReturnsFailure ==
    [][(snd.pc = "locate" /\ snd'.pc = "done") =>
           /\ snd'.result = "failure"
           /\ snd'.clicks = <<>>
           /\ snd'.calls = <<"locate_many">>
           /\ ctx'.input_center_position = ctx.input_center_position
           /\ ctx'.send_button_position = ctx.send_button_position
           /\ ctx'.meta.last_locate_at = ctx.meta.last_locate_at]_vars

\* C40: execute clicks the input position before the send-button position;
\* when the input click raises it returns failure without the send click and
\* without the after-screenshot; it returns success only after both clicks
\* and the after-screenshot
C40_InputThenSendThenShot ==
    [][snd' # snd =>
           /\ \A i \in DOMAIN snd'.calls :
                 snd'.calls[i] = "click_send" => \E j \in 1..(i - 1) : snd'.calls[j] = "click_input"
           /\ (snd.pc = "focus" /\ snd'.pc = "done") =>
                 /\ snd'.result = "failure"
                 /\ ~Has(snd'.calls, "click_send") /\ ~Has(snd'.calls, "capture_desktop")
                 /\ snd'.clicks = <<>>
           /\ snd'.result = "success" =>
                 /\ Len(snd'.clicks) = 2
                 /\ \E n \in DOMAIN snd'.calls :
                       SubSeq(snd'.calls, n, Len(snd'.calls)) = <<"click_input", "click_send", "capture_desktop">>]_vars

\* after a located send button: both clicks, the screenshot, success
C40_Witness ==
    /\ snd.pc = "done" /\ snd.result = "success"
    /\ snd.calls = <<"locate_many", "click_input", "click_send", "capture_desktop">>

(* ============================================ PositionLocator.locate_many *)
\* the longest target list passed to locate_many
MaxTargets == 2

\* the two tracked targets (the source names them in Chinese: the message
\* input box and the message send button)
TargetNames == {"input_box", "send_button"}

\* core/screenshot.py line 10-11
DefaultPath == "artifacts/screenshots/locate.png"

SeqsUpTo(S, n) == UNION {[1..k -> S] : k \in 0..n}
Range(q) == {q[i] : i \in DOMAIN q}

\* what a call is given and what its collaborators answer: the repository has
\* a template for the targets in templates. The frame is 1920 x 1080 and the
\* template of a target, 100 x 40, correlates with it at two places: at
\* (100, 50), in the top left, with score scene[t].tl, and at (1000, 900), in
\* the bottom right, with score scene[t].br. Scores and thresholds are in
\* tenths. The matcher is OpenCVTemplateMatcher ("opencv"), an object with
\* match_with_score but no _cv2 ("scored"), or an object with match alone
\* ("match_only"); readable says that cv2.imread reads both images and
\* roi_fails that cv2.matchTemplate raises on the bottom-right region.
LmInputs ==
    [targets : SeqsUpTo(TargetNames \cup {""}, MaxTargets),
     screenshot_path : {None, Some("shot.png")},
     annotated_path : {None, Some("annotated.png")},
     capture_ok : BOOLEAN,
     templates : SUBSET TargetNames,
     matcher : {[kind |-> "opencv", threshold |-> 5]},
     readable : {TRUE},
     roi_fails : {FALSE},
     scene : [TargetNames -> {[tl |-> 2, br |-> 3], [tl |-> 2, br |-> 8]}],
     annotate_ok : BOOLEAN]

\* core/screenshot.py line 20-59: the path written, or None
capture_desktop(path, ok) ==
    IF ok THEN (IF IsNone(path) THEN Some(DefaultPath) ELSE path) ELSE None

\* repository.get_template_path
TemplatePath(t, inp) == IF t \in inp.templates THEN Some("template_of_" \o t) ELSE None

\* a variant of match_with_score that rejects a score equal to the threshold
match_with_score_Above(t, inp) ==
    LET best == IF inp.scene[t].tl >= inp.scene[t].br
                  THEN [x |-> 100, y |-> 50, max_val |-> inp.scene[t].tl]
                  ELSE [x |-> 1000, y |-> 900, max_val |-> inp.scene[t].br]
    IN IF ~inp.readable THEN [bbox |-> None, score |-> None]
       ELSE IF best.max_val <= inp.matcher.threshold THEN [bbox |-> None, score |-> Some(best.max_val)]
       ELSE [bbox |-> Some([x |-> best.x, y |-> best.y, width |-> 100, height |-> 40]),
             score |-> Some(best.max_val)]

\* matcher.py line 26-54: match_with_score, on the whole frame
match_with_score(t, inp) ==
    LET \* line 39-40: matchTemplate, minMaxLoc
        best == IF inp.scene[t].tl >= inp.scene[t].br
                  THEN [x |-> 100, y |-> 50, max_val |-> inp.scene[t].tl]
                  ELSE [x |-> 1000, y |-> 900, max_val |-> inp.scene[t].br]
    IN IF ~inp.readable THEN [bbox |-> None, score |-> None]
       ELSE IF best.max_val < inp.matcher.threshold THEN [bbox |-> None, score |-> Some(best.max_val)]
       ELSE [bbox |-> Some([x |-> best.x, y |-> best.y, width |-> 100, height |-> 40]),
             score |-> Some(best.max_val)]

\* locator.py line 123-128, 203-208, 315-319: match_with_score if the matcher
\* has one, else match (matcher.py line 22-24) and no score
MatchWholeFrame(t, inp) ==
    IF inp.matcher.kind = "match_only"
      THEN [bbox |-> match_with_score(t, inp).bbox, score |-> None]
      ELSE match_with_score(t, inp)

\* a variant of _match_send_button_in_bottom_right that gives up when the
\* match on the region raises
match_send_button_in_bottom_right_NoFallback(t, inp) ==
    LET x0 == (1920 * 5) \div 10
        y0 == (1080 * 6) \div 10
        max_loc == [x |-> 1000 - x0, y |-> 900 - y0]
        max_val == inp.scene[t].br
        Whole(m) == [bbox |-> m.bbox, score |-> m.score, whole |-> TRUE]
    IN IF inp.matcher.kind = "match_only" THEN Whole(MatchWholeFrame(t, inp))
       ELSE IF inp.matcher.kind = "scored" THEN Whole(match_with_score(t, inp))
       ELSE IF ~inp.readable \/ inp.roi_fails THEN [bbox |-> None, score |-> None, whole |-> FALSE]
       ELSE IF max_val < inp.matcher.threshold THEN [bbox |-> None, score |-> Some(max_val), whole |-> FALSE]
       ELSE [bbox |-> Some([x |-> x0 + max_loc.x, y |-> y0 + max_loc.y, width |-> 100, height |-> 40]),
             score |-> Some(max_val), whole |-> FALSE]

\* locator.py line 276-319: _match_send_button_in_bottom_right; whole says
\* that a match on the whole frame was made (line 285, 313-319)
match_send_button_in_bottom_right(t, inp) ==
    LET \* line 292-294: x0 = int(w * 0.5), y0 = int(h * 0.6)
        x0 == (1920 * 5) \div 10
        y0 == (1080 * 6) \div 10
        \* line 297-298: the best match inside the region, in its coordinates
        max_loc == [x |-> 1000 - x0, y |-> 900 - y0]
        max_val == inp.scene[t].br
        Whole(m) == [bbox |-> m.bbox, score |-> m.score, whole |-> TRUE]
    IN \* line 285 raises AttributeError, line 313-319 call match
       IF inp.matcher.kind = "match_only" THEN Whole(MatchWholeFrame(t, inp))
       \* line 283-285: no _cv2
       ELSE IF inp.matcher.kind = "scored" THEN Whole(match_with_score(t, inp))
       \* line 286-289: imread gave None
       ELSE IF ~inp.readable THEN [bbox |-> None, score |-> None, whole |-> FALSE]
       \* line 297 raises, line 313-319
       ELSE IF inp.roi_fails THEN Whole(MatchWholeFrame(t, inp))
       ELSE IF max_val < inp.matcher.threshold THEN [bbox |-> None, score |-> Some(max_val), whole |-> FALSE]
       ELSE [bbox |-> Some([x |-> x0 + max_loc.x, y |-> y0 + max_loc.y, width |-> 100, height |-> 40]),
             score |-> Some(max_val), whole |-> FALSE]

\* a variant of LmFailedShot that gives no reason
LmFailedShot_NoReason(t, inp) ==
    [target |-> t, template_path |-> TemplatePath(t, inp), screenshot_path |-> None,
     annotated_screenshot_path |-> None, score |-> None, bbox |-> None, reason |-> None]

\* line 169-180: the result of a target when the capture failed
LmFailedShot(t, inp) ==
    [target |-> t, template_path |-> TemplatePath(t, inp), screenshot_path |-> None,
     annotated_screenshot_path |-> None, score |-> None, bbox |-> None,
     reason |-> Some("screenshot_failed")]

\* line 184-233: the result of one target matched against the frame shot
LmMatch(t, shot, inp) ==
    LET m == IF t = "send_button" THEN match_send_button_in_bottom_right(t, inp)
                                  ELSE MatchWholeFrame(t, inp)
    IN IF t \notin inp.templates
         THEN [target |-> t, template_path |-> None, screenshot_path |-> shot,
               annotated_screenshot_path |-> None, score |-> None, bbox |-> None,
               reason |-> Some("template_not_found")]
         ELSE [target |-> t, template_path |-> TemplatePath(t, inp), screenshot_path |-> shot,
               annotated_screenshot_path |-> None, score |-> m.score, bbox |-> m.bbox,
               reason |-> IF IsNone(m.bbox) THEN Some("no_match") ELSE None]

\* a variant of locate that captures the screenshot before it looks for the template
locate_CaptureFirst(target, inp) ==
    LET template_path == TemplatePath(target, inp)
        screenshot_path == capture_desktop(None, inp.capture_ok)
        m == MatchWholeFrame(target, inp)
        Result(tp, sp, score, bbox, reason) ==
            [target |-> target, template_path |-> tp, screenshot_path |-> sp,
             annotated_screenshot_path |-> None, score |-> score, bbox |-> bbox, reason |-> reason]
    IN IF IsNone(screenshot_path)
         THEN [result |-> Result(template_path, None, None, None, Some("screenshot_failed")),
               calls |-> <<"capture_desktop">>]
       ELSE IF IsNone(template_path)
         THEN [result |-> Result(None, screenshot_path, None, None, Some("template_not_found")),
               calls |-> <<"capture_desktop", "get_template_path">>]
       ELSE IF IsNone(m.bbox)
         THEN [result |-> Result(template_path, screenshot_path, m.score, None, Some("no_match")),
               calls |-> <<"capture_desktop", "get_template_path", "match">>]
       ELSE [result |-> Result(template_path, screenshot_path, m.score, m.bbox, None),
             calls |-> <<"capture_desktop", "get_template_path", "match">>]

\* line 94-150: locate, and the calls it makes
locate(target, inp) ==
    LET template_path == TemplatePath(target, inp)
        screenshot_path == capture_desktop(None, inp.capture_ok)
        m == MatchWholeFrame(target, inp)
        Result(tp, sp, score, bbox, reason) ==
            [target |-> target, template_path |-> tp, screenshot_path |-> sp,
             annotated_screenshot_path |-> None, score |-> score, bbox |-> bbox, reason |-> reason]
    IN IF IsNone(template_path)
         THEN [result |-> Result(None, None, None, None, Some("template_not_found")),
               calls |-> <<"get_template_path">>]
       ELSE IF IsNone(screenshot_path)
         THEN [result |-> Result(template_path, None, None, None, Some("screenshot_failed")),
               calls |-> <<"get_template_path", "capture_desktop">>]
       ELSE IF IsNone(m.bbox)
         THEN [result |-> Result(template_path, screenshot_path, m.score, None, Some("no_match")),
               calls |-> <<"get_template_path", "capture_desktop", "match">>]
       ELSE [result |-> Result(template_path, screenshot_path, m.score, m.bbox, None),
             calls |-> <<"get_template_path", "capture_desktop", "match">>]

\* a variant of locate_many that runs one capture-and-match per target, as a
\* loop over locate would
locate_many_PerTarget(targets, inp) ==
    LET target_list == SelectSeq(targets, LAMBDA t : t # "")
    IN [results |-> [t \in Range(target_list) |->
                        LET shot == capture_desktop(inp.screenshot_path, inp.capture_ok)
                        IN IF IsNone(shot) THEN LmFailedShot(t, inp) ELSE LmMatch(t, shot, inp)],
        captures |-> Len(target_list)]

\* line 152-274: the returned map, and the number of capture_desktop calls made
locate_many(targets, inp) ==
    LET target_list == SelectSeq(targets, LAMBDA t : t # "")
        names == Range(target_list)
        shot_path == capture_desktop(inp.screenshot_path, inp.capture_ok)
        matched == [t \in names |-> LmMatch(t, shot_path, inp)]
        found_bboxes == {t \in names : ~IsNone(matched[t].bbox)}
        \* line 235-250: the located boxes drawn on one annotated copy
        drawn == [t \in names |->
                    IF inp.annotate_ok /\ ~IsNone(matched[t].bbox)
                      THEN [matched[t] EXCEPT !.annotated_screenshot_path = inp.annotated_path]
                      ELSE matched[t]]
        \* line 252-272: nothing matched: a plain copy of the screenshot
        copied == [t \in names |->
                    IF inp.annotate_ok
                      THEN [matched[t] EXCEPT !.annotated_screenshot_path = inp.annotated_path]
                      ELSE matched[t]]
    IN IF target_list = <<>>
         THEN [results |-> [t \in {} |-> None], captures |-> 0]
         ELSE IF IsNone(shot_path)
           THEN [results |-> [t \in names |-> LmFailedShot(t, inp)], captures |-> 1]
           ELSE [results |-> IF IsNone(inp.annotated_path) THEN matched
                             ELSE IF found_bboxes # {} THEN drawn ELSE copied,
                 captures |-> 1]

\* the call is made and returns
LmCall ==
    /\ lm.pc = "call"
    /\ lm' = [lm EXCEPT !.pc = "done", !.out = locate_many(lm.inp.targets, lm.inp)]
    /\ UNCHANGED <<gvars, cap, rcl, win, ff, mt, tr, cfg, lk>>

GuardOff ==
    /\ tnow = 1
    /\ ctx = NewContext
    /\ stop_event = FALSE
    /\ thread = 0
    /\ tstate = [t \in Threads |-> "free"]
    /\ env = AbsentEnv
    /\ wk = [t \in Threads |-> NewWorker]
    /\ lastret = [c \in Callers |-> NoReturn]
    /\ cpc = [c \in Callers |-> "off"]
    /\ snd = NewSender

InitLm ==
    /\ GuardOff
    /\ lm \in [pc : {"call"}, inp : LmInputs, out : {None}]
    /\ cap = Off /\ rcl = Off /\ win = Off /\ ff = Off /\ mt = Off /\ tr = Off /\ cfg = Off /\ lk = Off

NextLm == LmCall

LmSpec == InitLm /\ [][NextLm]_vars

\* locate is called on the first target and returns
LocCall ==
    /\ lm.pc = "call" /\ lm.inp.targets # <<>>
    /\ lm' = [lm EXCEPT !.pc = "located", !.out = locate(lm.inp.targets[1], lm.inp)]
    /\ UNCHANGED <<gvars, cap, rcl, win, ff, mt, tr, cfg, lk>>

\* locate or locate_many with every matcher, threshold and frame
InitLoc ==
    /\ GuardOff
    /\ lm \in [pc : {"call"}, out : {None},
               inp : [targets : {<<"input_box">>, <<"send_button">>, <<"input_box", "send_button">>,
                                 <<"send_button", "input_box">>},
                      screenshot_path : {None},
                      annotated_path : {None, Some("annotated.png")},
                      capture_ok : BOOLEAN,
                      templates : SUBSET TargetNames,
                      matcher : [kind : {"opencv", "scored", "match_only"}, threshold : {5, 8}],
                      readable : BOOLEAN,
                      roi_fails : BOOLEAN,
                      scene : {sc \in [TargetNames -> [tl : {2, 9}, br : {3, 5, 8}]] : sc["input_box"].tl = 2},
                      annotate_ok : BOOLEAN]]
    /\ cap = Off /\ rcl = Off /\ win = Off /\ ff = Off /\ mt = Off /\ tr = Off /\ cfg = Off /\ lk = Off

LocSpec == InitLoc /\ [][LmCall \/ LocCall]_vars

\* the inputs with target b made to fail in the given way
WithFailure(inp, b, kind) ==
    IF kind = "template_not_found"
      THEN [inp EXCEPT !.templates = @ \ {b}]
      ELSE [inp EXCEPT !.scene[b] = [tl |-> 2, br |-> 3]]

\* a result without its annotated_screenshot_path
LmCore(r) == [r EXCEPT !.annotated_screenshot_path = None]

LmDone == lm.pc = "done"
LmNames == Range(SelectSeq(lm.inp.targets, LAMBDA t : t # ""))

\* C11 as stated: one capture and one screenshot_path for a list with a
\* target, nothing for a list without one, and the whole LocateResult of a
\* target is the same whether or not another target fails.
C11_OneFrameIndependentResults ==
    LmDone =>
        /\ DOMAIN lm.out.results = LmNames
        /\ lm.out.captures = IF LmNames = {} THEN 0 ELSE 1
        /\ \A a, b \in LmNames : lm.out.results[a].screenshot_path = lm.out.results[b].screenshot_path
        /\ \A a, b \in LmNames : \A kind \in {"template_not_found", "no_match"} :
              a # b => locate_many(lm.inp.targets, WithFailure(lm.inp, b, kind)).results[a]
                          = lm.out.results[a]

\* C11, amended: as above, but the failure of another target leaves every
\* field of a target's LocateResult except annotated_screenshot_path as it is;
\* a target without a bbox carries the annotated path exactly when an
\* annotated path was asked for, the copy could be written and no target of
\* the call matched.
C11_OneFrameIndependentCore ==
    LmDone =>
        /\ DOMAIN lm.out.results = LmNames
        /\ lm.out.captures = IF LmNames = {} THEN 0 ELSE 1
        /\ \A a, b \in LmNames : lm.out.results[a].screenshot_path = lm.out.results[b].screenshot_path
        /\ \A a, b \in LmNames : \A kind \in {"template_not_found", "no_match"} :
              a # b => LmCore(locate_many(lm.inp.targets, WithFailure(lm.inp, b, kind)).results[a])
                          = LmCore(lm.out.results[a])
        /\ \A a \in LmNames :
              IsNone(lm.out.results[a].bbox) =>
                 (~IsNone(lm.out.results[a].annotated_screenshot_path)
                    <=> /\ ~IsNone(lm.inp.annotated_path) /\ lm.inp.annotate_ok /\ lm.inp.capture_ok
                        /\ \A b \in LmNames : IsNone(lm.out.results[b].bbox))

\* one target failed, the other was located, both on the same frame
C11_Witness ==
    /\ LmDone /\ LmNames = TargetNames /\ lm.out.captures = 1
    /\ lm.out.results["input_box"].reason = Some("template_not_found")
    /\ ~IsNone(lm.out.results["send_button"].bbox)
    /\ ~IsNone(lm.out.results["send_button"].annotated_screenshot_path)
    /\ lm.out.results["input_box"].screenshot_path = lm.out.results["send_button"].screenshot_path

(* ------------------------------------------------- LocateResult, matching *)
\* the LocateResults the call returned
C27_Results ==
    IF lm.pc = "done" THEN {lm.out.results[t] : t \in DOMAIN lm.out.results}
    ELSE IF lm.pc = "located" THEN {lm.out.result}
    ELSE {}

\* the best score of the template of target t over the whole frame
C26_Observed(t) ==
    IF lm.inp.scene[t].tl > lm.inp.scene[t].br THEN lm.inp.scene[t].tl ELSE lm.inp.scene[t].br

\* C26: match_with_score accepts the best match iff its score is at or above
\* the threshold: below it the result is (none, score), at or above it a bbox
\* at the best location with the template's width and height, and that score.
\* Stated on locate with a matcher that has match_with_score, once template
\* and screenshot are there and readable.
C26_AcceptsAtOrAboveThreshold ==
    (/\ lm.pc = "located" /\ lm.inp.matcher.kind # "match_only" /\ lm.inp.readable
     /\ lm.inp.capture_ok /\ lm.inp.targets[1] \in lm.inp.templates) =>
        LET t == lm.inp.targets[1]
            r == lm.out.result
            at == IF C26_Observed(t) = lm.inp.scene[t].tl THEN <<100, 50>> ELSE <<1000, 900>>
        IN /\ r.score = Some(C26_Observed(t))
           /\ ~IsNone(r.bbox) <=> C26_Observed(t) >= lm.inp.matcher.threshold
           /\ ~IsNone(r.bbox) => Val(r.bbox) = [x |-> at[1], y |-> at[2], width |-> 100, height |-> 40]
           /\ match_with_score(t, lm.inp) = [bbox |-> r.bbox, score |-> r.score]

\* a score equal to the threshold was accepted
C26_Witness ==
    /\ lm.pc = "located" /\ lm.inp.matcher = [kind |-> "opencv", threshold |-> 5]
    /\ lm.out.result.score = Some(5) /\ ~IsNone(lm.out.result.bbox)

\* C27: in every LocateResult of locate and of locate_many, the annotation
\* rewrite included, exactly one of bbox and reason is set, and a reason is
\* template_not_found, screenshot_failed or no_match
C27_BboxXorReason ==
    \A r \in C27_Results :
        /\ ~IsNone(r.bbox) => IsNone(r.reason)
        /\ IsNone(r.bbox) => r.reason \in {Some("template_not_found"), Some("screenshot_failed"), Some("no_match")}

\* locate_many rewrote its results for the annotated copy: one target has a
\* bbox, the other a reason
C27_Witness ==
    /\ lm.pc = "done" /\ DOMAIN lm.out.results = TargetNames
    /\ ~IsNone(lm.out.results["send_button"].bbox)
    /\ lm.out.results["send_button"].annotated_screenshot_path = Some("annotated.png")
    /\ lm.out.results["input_box"].reason = Some("no_match")

\* C28: every LocateResult with a bbox has a score, and the score is at or
\* above the matcher's threshold, on every path: locate, locate_many, the
\* restricted search, a matcher with match alone
C28_BboxHasAcceptedScore ==
    \A r \in C27_Results :
        ~IsNone(r.bbox) => ~IsNone(r.score) /\ Val(r.score) >= lm.inp.matcher.threshold

\* C29: locate resolves the template, captures one screenshot, matches, in
\* that order, and reports the first step that fails: without a template
\* template_not_found and neither capture nor match; with a failed capture
\* screenshot_failed, no bbox and no match; without an accepted match
\* no_match; else a result with a bbox
C29_LocateOrder ==
    lm.pc = "located" =>
        LET t == lm.inp.targets[1]
            r == lm.out.result
            calls == lm.out.calls
        IN /\ \E n \in 1..3 : calls = SubSeq(<<"get_template_path", "capture_desktop", "match">>, 1, n)
           /\ IF t \notin lm.inp.templates
                THEN r.reason = Some("template_not_found") /\ calls = <<"get_template_path">>
              ELSE IF ~lm.inp.capture_ok
                THEN /\ r.reason = Some("screenshot_failed") /\ IsNone(r.bbox)
                     /\ calls = <<"get_template_path", "capture_desktop">>
              ELSE IF IsNone(MatchWholeFrame(t, lm.inp).bbox)
                THEN r.reason = Some("no_match") /\ Len(calls) = 3
              ELSE ~IsNone(r.bbox) /\ IsNone(r.reason) /\ Len(calls) = 3

\* no template although a capture would have worked: nothing was captured
C29_Witness ==
    /\ lm.pc = "located" /\ lm.inp.capture_ok
    /\ lm.out.result.reason = Some("template_not_found")
    /\ lm.out.calls = <<"get_template_path">>

\* C30: with the OpenCV matcher, a bbox accepted for the send button, by
\* locate (the guard tick's call) or by locate_many (SendMessageAction's),
\* lies in the bottom-right region of the frame (x >= 960, y >= 648) unless
\* the restricted search itself failed
C30_SendButtonBottomRight ==
    \A r \in C27_Results :
        (/\ r.target = "send_button" /\ ~IsNone(r.bbox)
         /\ lm.inp.matcher.kind = "opencv" /\ ~lm.inp.roi_fails) =>
            Val(r.bbox).x >= 960 /\ Val(r.bbox).y >= 648

\* locate_many matched the send button: it is asked for, has a template, and
\* the frame was captured
C31_SendMatched ==
    /\ lm.pc = "done" /\ "send_button" \in DOMAIN lm.out.results
    /\ "send_button" \in lm.inp.templates /\ lm.inp.capture_ok

\* the send button's result is that of a match on the whole frame
C31_WholeFrameResult ==
    /\ match_send_button_in_bottom_right("send_button", lm.inp).whole
    /\ lm.out.results["send_button"].bbox = MatchWholeFrame("send_button", lm.inp).bbox
    /\ lm.out.results["send_button"].score = MatchWholeFrame("send_button", lm.inp).score

\* C31 as stated: whenever the restricted search for the send button fails
\* internally (the match on the region raises, or the screenshot or the
\* template cannot be loaded), the locator makes a match on the whole frame
\* and returns its result
C31_FallbackOnInternalFailure ==
    (C31_SendMatched /\ lm.inp.matcher.kind = "opencv" /\ (lm.inp.roi_fails \/ ~lm.inp.readable)) =>
        C31_WholeFrameResult

\* C31, amended: when the match on the region raises, the locator makes a
\* match on the whole frame and returns its result; when the screenshot or
\* the template cannot be loaded it makes no further match and the send
\* button's result is no_match without bbox and without score
C31_FallbackWhenRegionMatchRaises ==
    (C31_SendMatched /\ lm.inp.matcher.kind = "opencv") =>
        /\ (lm.inp.roi_fails /\ lm.inp.readable) => C31_WholeFrameResult
        /\ ~lm.inp.readable =>
              /\ ~match_send_button_in_bottom_right("send_button", lm.inp).whole
              /\ IsNone(lm.out.results["send_button"].bbox)
              /\ IsNone(lm.out.results["send_button"].score)
              /\ lm.out.results["send_button"].reason = Some("no_match")

\* the match on the region raised and the whole frame gave a bbox in the top left
C31_Witness ==
    /\ C31_SendMatched /\ lm.inp.matcher.kind = "opencv" /\ lm.inp.roi_fails
    /\ lm.out.results["send_button"].bbox = Some([x |-> 100, y |-> 50, width |-> 100, height |-> 40])

(* ============================================================ CAPTURE_LOCK *)
\* threads that capture: guard tick and request handlers
MaxCapThreads == 3
CapThreads == 1..MaxCapThreads

\* a thread outside any capture
CapIdle == [pc |-> "idle", kind |-> "none", read |-> 0]

\* the thread enters locate / locate_many (kind "locate") or a bare
\* capture_desktop call (kind "capture": send_message_action.py line 210,
\* max_and_top_action.py line 508, api/main.py line 104)
CapEnter(p) ==
    /\ cap.th[p].pc = "idle"
    /\ \E kind \in {"locate", "capture"} :
         cap' = [cap EXCEPT !.th[p] = [pc |-> IF kind = "locate" THEN "acquire" ELSE "grab",
                                       kind |-> kind, read |-> 0]]
    /\ UNCHANGED <<gvars, lm, rcl, win, ff, mt, tr, cfg, lk>>

\* a variant of `with CAPTURE_LOCK:` that does not wait for the owner
CapAcquire_NoWait(p) ==
    /\ cap.th[p].pc = "acquire"
    /\ cap' = [cap EXCEPT !.owner = p, !.depth = IF cap.owner = p THEN @ + 1 ELSE 1,
                          !.th[p].pc = "grab"]
    /\ UNCHANGED <<gvars, lm, rcl, win, ff, mt, tr, cfg, lk>>

\* locator.py line 109 / 166: with CAPTURE_LOCK: (an RLock: free, or owned by p)
CapAcquire(p) ==
    /\ cap.th[p].pc = "acquire"
    /\ cap.owner \in {0, p}
    /\ cap' = [cap EXCEPT !.owner = p, !.depth = @ + 1, !.th[p].pc = "grab"]
    /\ UNCHANGED <<gvars, lm, rcl, win, ff, mt, tr, cfg, lk>>

\* screenshot.py line 35-39 / 46-50: with CAPTURE_LOCK: grab, save,
\* os.replace(tmp_path, target_path); the lock is taken and given back inside
\* the call, so the step needs it free or owned by p; a failed grab writes no file
CapGrab(p) ==
    /\ cap.th[p].pc = "grab"
    /\ cap.owner \in {0, p}
    /\ \E ok \in BOOLEAN :
         cap' = [cap EXCEPT !.file = IF ok THEN p ELSE @,
                            !.th[p] = IF cap.th[p].kind = "capture" THEN CapIdle
                                      ELSE [@ EXCEPT !.pc = IF ok THEN "match" ELSE "release"]]
    /\ UNCHANGED <<gvars, lm, rcl, win, ff, mt, tr, cfg, lk>>

\* locator.py line 123-128 / 184-233: the matcher reads the screenshot file
CapMatch(p) ==
    /\ cap.th[p].pc = "match"
    /\ cap' = [cap EXCEPT !.th[p].pc = "release", !.th[p].read = cap.file]
    /\ UNCHANGED <<gvars, lm, rcl, win, ff, mt, tr, cfg, lk>>

\* the end of the with block: the RLock is given back
CapRelease(p) ==
    /\ cap.th[p].pc = "release"
    /\ cap' = [cap EXCEPT !.depth = IF cap.owner = p THEN @ - 1 ELSE @,
                          !.owner = IF cap.owner = p /\ cap.depth = 1 THEN 0 ELSE @,
                          !.th[p] = [CapIdle EXCEPT !.read = cap.th[p].read]]
    /\ UNCHANGED <<gvars, lm, rcl, win, ff, mt, tr, cfg, lk>>

InitCap ==
    /\ GuardOff
    /\ cap = [owner |-> 0, depth |-> 0, file |-> 0, th |-> [p \in CapThreads |-> CapIdle]]
    /\ lm = Off /\ rcl = Off /\ win = Off /\ ff = Off /\ mt = Off /\ tr = Off /\ cfg = Off /\ lk = Off

NextCap ==
    \E p \in CapThreads :
        CapEnter(p) \/ CapAcquire(p) \/ CapGrab(p) \/ CapMatch(p) \/ CapRelease(p)

CapSpec == InitCap /\ [][NextCap]_vars

\* p is between the start of its capture and the end of its matching
CapInWindow(p) == cap.th[p].kind = "locate" /\ cap.th[p].pc \in {"grab", "match", "release"}

\* C12: no two threads are at once between the start of a capture and the end
\* of the matching that reads it; the frame a locate matches against is the
\* one it captured (no other capture_desktop call has written the file since);
\* the lock changes hands only by being released, so a second caller waits.
C12_CaptureMatchExclusive ==
    /\ [](\A p, q \in CapThreads : (p # q /\ CapInWindow(p)) => ~CapInWindow(q))
    /\ [](\A p \in CapThreads : cap.th[p].pc = "match" => cap.owner = p /\ cap.file = p)
    /\ [][\A p \in CapThreads : (cap.th[p].pc = "match" /\ cap'.th[p].pc # "match")
                                    => cap'.th[p].read = p]_vars
    /\ [][(cap.owner # 0 /\ cap'.owner # cap.owner)
             => (cap'.owner = 0 /\ cap.th[cap.owner].pc = "release")]_vars

\* one thread is matching the frame it captured while a second waits to enter
\* its with block and a third waits inside a bare capture_desktop call
C12_Witness ==
    \E p, q, r \in CapThreads :
        /\ cap.th[p].pc = "match" /\ cap.owner = p /\ cap.file = p
        /\ cap.th[q].pc = "acquire"
        /\ cap.th[r].pc = "grab" /\ cap.th[r].kind = "capture"

(* ===================================================== RuntimeContext._lock *)
\* calls each thread makes on the shared RuntimeContext
MaxRcCalls == 1
\* threads that call the shared RuntimeContext
MaxRcThreads == 3
RcThreads == 1..MaxRcThreads

\* the fields of the context, in the order in which a method assigns them
RcFields == <<"p_screen_size", "l_screen_size", "input_center_position",
              "send_button_position", "last_guard_tick_at", "last_locate_at",
              "last_max_top_at", "last_error", "updated_at">>

RcGet(c, f) ==
    CASE f = "p_screen_size" -> c.p_screen_size
      [] f = "l_screen_size" -> c.l_screen_size
      [] f = "input_center_position" -> c.input_center_position
      [] f = "send_button_position" -> c.send_button_position
      [] OTHER -> c.meta[f]

\* one assignment to a field of the context
RcPut(c, f, v) ==
    CASE f = "p_screen_size" -> [c EXCEPT !.p_screen_size = v]
      [] f = "l_screen_size" -> [c EXCEPT !.l_screen_size = v]
      [] f = "input_center_position" -> [c EXCEPT !.input_center_position = v]
      [] f = "send_button_position" -> [c EXCEPT !.send_button_position = v]
      [] OTHER -> [c EXCEPT !.meta[f] = v]

\* the calls thread p can make: the method and its arguments
RcCalls(p) ==
    [op : {"update_positions"}, a : {None, Some(<<p, p>>)}, b : {None, Some(<<p, p + 1>>)},
     at : {None, Some(p)}]
    \cup [op : {"update_screen_sizes"}, a : {None, Some(<<p, p>>)}, b : {None, Some(<<p, p + 1>>)},
          at : {None}]
    \cup [op : {"mark_guard_tick", "mark_max_top"}, a : {None}, b : {None}, at : {Some(p)}]
    \cup [op : {"set_last_error"}, a : {None, Some("locate_failed")}, b : {None}, at : {None}]
    \cup [op : {"snapshot"}, a : {None}, b : {None}, at : {None}]

\* the context a method leaves when it runs on c: thread p calls at Instants[p]
RcResult(c, k, p) ==
    CASE k.op = "update_positions" -> update_positions(c, k.a, k.b, k.at, Instants[p])
      [] k.op = "update_screen_sizes" -> update_screen_sizes(c, k.a, k.b, Instants[p])
      [] k.op = "mark_guard_tick" -> mark_guard_tick(c, Val(k.at), Instants[p])
      [] k.op = "mark_max_top" -> mark_max_top(c, Val(k.at), Instants[p])
      [] k.op = "set_last_error" -> set_last_error(c, k.a, Instants[p])
      [] OTHER -> c

\* a variant of `with self._lock:` that enters without taking the lock
RcAcquire_NoLock(p) ==
    /\ rcl.th[p].pc = "idle" /\ rcl.th[p].calls < MaxRcCalls
    /\ \E k \in RcCalls(p) :
         rcl' = [rcl EXCEPT !.th[p] = [pc |-> "in", calls |-> rcl.th[p].calls + 1, k |-> Some(k),
                                       base |-> Some(ctx), goal |-> Some(RcResult(ctx, k, p)),
                                       snap |-> None]]
    /\ UNCHANGED <<gvars, lm, cap, win, ff, mt, tr, cfg, lk>>

\* runtime_context.py line 39, 49, 65, 79, 84, 89: with self._lock: the thread
\* calls a method and enters its locked block
RcAcquire(p) ==
    /\ rcl.th[p].pc = "idle" /\ rcl.th[p].calls < MaxRcCalls
    /\ rcl.owner = 0
    /\ \E k \in RcCalls(p) :
         rcl' = [rcl EXCEPT !.owner = p,
                            !.th[p] = [pc |-> "in", calls |-> rcl.th[p].calls + 1, k |-> Some(k),
                                       base |-> Some(ctx), goal |-> Some(RcResult(ctx, k, p)),
                                       snap |-> None]]
    /\ UNCHANGED <<gvars, lm, cap, win, ff, mt, tr, cfg, lk>>

\* the fields the method has still to assign
RcPending(p) == {i \in DOMAIN RcFields : RcGet(ctx, RcFields[i]) # RcGet(Val(rcl.th[p].goal), RcFields[i])}

\* line 50-54, 66-76, 80-81, 85-86, 90-91: the next assignment of the method
RcWrite(p) ==
    /\ rcl.th[p].pc = "in" /\ Val(rcl.th[p].k).op # "snapshot"
    /\ RcPending(p) # {}
    /\ LET i == CHOOSE j \in RcPending(p) : \A h \in RcPending(p) : j <= h
       IN ctx' = RcPut(ctx, RcFields[i], RcGet(Val(rcl.th[p].goal), RcFields[i]))
    /\ UNCHANGED <<tnow, stop_event, thread, tstate, env, wk, cpc, lastret, snd, parts>>

\* line 40-46: the copy of every field
RcCopy(p) ==
    /\ rcl.th[p].pc = "in" /\ Val(rcl.th[p].k).op = "snapshot"
    /\ rcl' = [rcl EXCEPT !.th[p].pc = "copied", !.th[p].snap = Some(ctx)]
    /\ UNCHANGED <<gvars, lm, cap, win, ff, mt, tr, cfg, lk>>

\* the end of the with block: the method returns
RcRelease(p) ==
    /\ \/ rcl.th[p].pc = "copied"
       \/ rcl.th[p].pc = "in" /\ Val(rcl.th[p].k).op # "snapshot" /\ RcPending(p) = {}
    /\ rcl' = [rcl EXCEPT !.owner = IF rcl.owner = p THEN 0 ELSE @,
                          !.stable = ctx,
                          !.th[p].pc = "idle"]
    /\ UNCHANGED <<gvars, lm, cap, win, ff, mt, tr, cfg, lk>>

InitRc ==
    /\ GuardOff
    /\ rcl = [owner |-> 0, stable |-> ctx, th |-> [p \in RcThreads |->
                  [pc |-> "idle", calls |-> 0, k |-> None, base |-> None, goal |-> None,
                   snap |-> None]]]
    /\ lm = Off /\ cap = Off /\ win = Off /\ ff = Off /\ mt = Off /\ tr = Off /\ cfg = Off /\ lk = Off

NextRc ==
    \E p \in RcThreads : RcAcquire(p) \/ RcWrite(p) \/ RcCopy(p) \/ RcRelease(p)

RcSpec == InitRc /\ [][NextRc]_vars

\* the writers inside a method at this moment
C13_Writers == {q \in RcThreads : rcl.th[q].pc = "in" /\ Val(rcl.th[q].k).op # "snapshot"}

\* C13: a snapshot reflects, of every update call, all of its field writes or
\* none: it is the context as the last call that returned left it (stable is
\* the context at the last release), and for a call in progress it is the
\* context as that call found it or as that call leaves it.
C13_SnapshotConsistent ==
    [][\A p \in RcThreads :
         (rcl.th[p].pc = "in" /\ rcl'.th[p].pc = "copied") =>
            /\ Val(rcl'.th[p].snap) = rcl.stable
            /\ \A q \in C13_Writers :
                Val(rcl'.th[p].snap) \in {Val(rcl.th[q].base), Val(rcl.th[q].goal)}]_vars

\* a snapshot taken after an update_positions call that set both positions
\* and last_locate_at, while another thread waits for the lock
C13_Witness ==
    \E p, q \in RcThreads :
        /\ rcl.th[p].pc = "copied"
        /\ ~IsNone(Val(rcl.th[p].snap).input_center_position)
        /\ Val(rcl.th[p].snap).meta.last_locate_at = Some(q)
        /\ Val(rcl.th[p].snap).input_center_position = Some(<<q, q>>)
        /\ rcl.owner = p

\* the value a field has after a partial update: the argument when it is set
C14_Kept(old, arg) == IF arg = None THEN old ELSE arg

\* thread p has made every assignment of an update_positions or
\* update_screen_sizes call and is about to return
C14_Returning(p, op) ==
    /\ rcl.th[p].pc = "in" /\ rcl'.th[p].pc = "idle"
    /\ Val(rcl.th[p].k).op = op

\* C14: update_positions and update_screen_sizes are partial updates: when the
\* call returns, a field whose argument is null has the value the call found,
\* a field whose argument is set has the argument, updated_at is the time of
\* the call and every other field is as the call found it; and no step of any
\* method sets a position or a screen size back to null.
C14_PartialUpdates ==
    [][/\ \A p \in RcThreads :
            LET k == Val(rcl.th[p].k)
                b == Val(rcl.th[p].base)
            IN /\ C14_Returning(p, "update_positions") =>
                    /\ ctx.input_center_position = C14_Kept(b.input_center_position, k.a)
                    /\ ctx.send_button_position = C14_Kept(b.send_button_position, k.b)
                    /\ ctx.meta.last_locate_at = C14_Kept(b.meta.last_locate_at, k.at)
                    /\ ctx.meta.updated_at = Some(Instants[p])
                    /\ ctx.p_screen_size = b.p_screen_size
                    /\ ctx.l_screen_size = b.l_screen_size
                    /\ ctx.meta.last_guard_tick_at = b.meta.last_guard_tick_at
                    /\ ctx.meta.last_max_top_at = b.meta.last_max_top_at
                    /\ ctx.meta.last_error = b.meta.last_error
               /\ C14_Returning(p, "update_screen_sizes") =>
                    /\ ctx.p_screen_size = C14_Kept(b.p_screen_size, k.a)
                    /\ ctx.l_screen_size = C14_Kept(b.l_screen_size, k.b)
                    /\ ctx.meta.updated_at = Some(Instants[p])
                    /\ ctx.input_center_position = b.input_center_position
                    /\ ctx.send_button_position = b.send_button_position
                    /\ ctx.meta = [b.meta EXCEPT !.updated_at = Some(Instants[p])]
       /\ \A f \in {"p_screen_size", "l_screen_size", "input_center_position",
                     "send_button_position"} :
            RcGet(ctx, f) # None => RcGet(ctx', f) # None]_vars

\* an update_screen_sizes call with one size null on a context holding both
\* sizes and both positions has made its writes: the size it was not given
\* is still the one an earlier call stored
C14_Witness ==
    \E p \in RcThreads :
        /\ rcl.th[p].pc = "in" /\ rcl.owner = p
        /\ Val(rcl.th[p].k).op = "update_screen_sizes"
        /\ Val(rcl.th[p].k).a = None /\ Val(rcl.th[p].k).b # None
        /\ RcPending(p) = {}
        /\ Val(rcl.th[p].base).p_screen_size # None
        /\ Val(rcl.th[p].base).l_screen_size # None
        /\ ctx.l_screen_size = Val(rcl.th[p].k).b
        /\ ctx.l_screen_size # Val(rcl.th[p].base).l_screen_size
        /\ ctx.input_center_position # None

(* ============================================ WindowController.find_window *)
\* top-level windows one EnumWindows pass reports
MaxWindows == 3
\* the process ids of the machine
Pids == {1, 2}


\* str.lower() on the words the titles and image names of the model are made of
Lower(word) ==
    CASE word = "WeCom" -> "wecom"
      [] word = "WXWork.exe" -> "wxwork.exe"
      [] OTHER -> word

\* line 133-161: the ids of the running target processes; the empty set when
\* tasklist cannot be run
get_candidate_pids(procs, tasklist_ok) ==
    LET process_names == {"wxwork.exe", "wecom.exe", "wechatwork.exe"}
    IN IF ~tasklist_ok THEN {}
       ELSE {pid \in DOMAIN procs : Lower(procs[pid]) \in process_names}

\* line 295-296, 215: `target in title` for some target of self.targets
\* (line 20, lower-cased by line 260): the lower-cased title contains a
\* target; a title is a sequence of words, and "qiyeweixin" stands for the
\* Chinese product name, the first target
TitleMatch(title) ==
    LET target_titles == {"qiyeweixin", "wecom", "wxwork"}
    IN \E i \in DOMAIN title : Lower(title[i]) \in target_titles

\* the windows an enumeration can hold: hidden, owned and untitled windows of
\* a target-like kind, and visible ownerless titled windows of every kind.
\* area is the value of area_for (line 310-316): 0 is a window without extent
\* and also what area_for returns when GetWindowRect fails
Windows ==
    {[visible |-> FALSE, owned |-> FALSE, title |-> <<"WeCom">>, pid |-> 1, area |-> 2],
     [visible |-> TRUE, owned |-> TRUE, title |-> <<"WeCom">>, pid |-> 1, area |-> 2],
     [visible |-> TRUE, owned |-> FALSE, title |-> <<>>, pid |-> 1, area |-> 2]}
    \cup [visible : {TRUE}, owned : {FALSE}, title : {<<"WeCom">>, <<"swagger", "wecom">>, <<"notepad">>},
          pid : Pids, area : {0, 1, 2}]

\* line 268-283 and 193-208: the windows both callbacks look at
Eligible(w) == w.visible /\ ~w.owned /\ Len(w.title) > 0

RECURSIVE InsertDesc(_, _)
\* put c into the descending list q after every element that is not smaller
\* under the key of line 319, (title matched, area), compared as Python
\* compares tuples
InsertDesc(q, c) ==
    LET KeyLess(a, b) == \/ ~a.matched /\ b.matched
                         \/ a.matched = b.matched /\ a.area < b.area
    IN IF q = <<>> THEN <<c>>
       ELSE IF KeyLess(Head(q), c) THEN <<c>> \o q
       ELSE <<Head(q)>> \o InsertDesc(Tail(q), c)

RECURSIVE SortDesc(_)
\* list.sort(key=..., reverse=True): descending and stable
SortDesc(q) ==
    IF q = <<>> THEN <<>>
    ELSE InsertDesc(SortDesc(SubSeq(q, 1, Len(q) - 1)), q[Len(q)])

RECURSIVE FindCandidates(_, _, _)
\* line 265-302: the callback of find_window over the windows from the i-th on
FindCandidates(ws, pids, i) ==
    IF i > Len(ws) THEN <<>>
    ELSE LET w == ws[i]
             rest == FindCandidates(ws, pids, i + 1)
         IN IF ~Eligible(w) THEN rest
            ELSE IF pids = {} THEN rest
            ELSE IF w.pid \notin pids THEN rest
            ELSE IF TitleMatch(w.title)
                 THEN <<[hwnd |-> i, matched |-> TRUE, area |-> w.area]>> \o rest
            ELSE <<[hwnd |-> i, matched |-> FALSE, area |-> w.area]>> \o rest

\* a variant of find_window that returns the first candidate it collected
find_window_First(ws, pids) ==
    LET candidates == FindCandidates(ws, pids, 1)
    IN IF candidates = <<>> THEN None ELSE Some(candidates[1].hwnd)

\* a variant of find_window whose callback has no test of the pid set
find_window_TitleFallback(ws, pids) ==
    LET hit == {i \in DOMAIN ws : Eligible(ws[i]) /\ TitleMatch(ws[i].title)}
    IN IF hit = {} THEN None ELSE Some(CHOOSE i \in hit : \A j \in hit : i <= j)

\* line 256-321: the handle find_window returns, None when it has no candidate
find_window(ws, pids) ==
    LET candidates == FindCandidates(ws, pids, 1)
    IN IF candidates = <<>> THEN None ELSE Some(SortDesc(candidates)[1].hwnd)

RECURSIVE list_matching_windows(_, _, _)
\* line 184-234: the "windows" list of list_matching_windows from the i-th window on
list_matching_windows(ws, pids, i) ==
    IF i > Len(ws) THEN <<>>
    ELSE LET w == ws[i]
             rest == list_matching_windows(ws, pids, i + 1)
             pid_match == pids # {} /\ w.pid \in pids
             title_match == TitleMatch(w.title)
         IN IF ~Eligible(w) THEN rest
            ELSE IF pids = {} THEN rest
            ELSE IF ~(pid_match \/ title_match) THEN rest
            ELSE <<[hwnd |-> i, title_match |-> title_match, pid_match |-> pid_match]>> \o rest


\* the pid set both functions compute at their start (line 185, 261)
WinPids == get_candidate_pids(win.inp.procs, win.inp.tasklist_ok)

\* find_window runs on what the machine shows
WinFind ==
    /\ win.pc = "call"
    /\ win' = [win EXCEPT !.pc = "found", !.found = find_window(win.inp.windows, WinPids)]
    /\ UNCHANGED <<gvars, lm, cap, rcl, ff, mt, tr, cfg, lk>>

\* list_matching_windows runs on the same windows and processes
WinList ==
    /\ win.pc = "found"
    /\ win' = [win EXCEPT !.pc = "done",
                          !.listed = list_matching_windows(win.inp.windows, WinPids, 1)]
    /\ UNCHANGED <<gvars, lm, cap, rcl, ff, mt, tr, cfg, lk>>

\* the enumerations and process tables a call can meet: tasklist reports for
\* a process id no process or its image name, and every window belongs to a
\* process of the table
InitWin ==
    /\ GuardOff
    /\ win \in [pc : {"call"}, found : {None}, listed : {<<>>},
                 inp : {inp \in [windows : SeqsUpTo(Windows, MaxWindows),
                                 procs : [Pids -> {"none", "WXWork.exe", "chrome.exe"}],
                                 tasklist_ok : BOOLEAN] :
                           \A i \in DOMAIN inp.windows :
                               inp.procs[inp.windows[i].pid] # "none"}]
    /\ lm = Off /\ cap = Off /\ rcl = Off /\ ff = Off /\ mt = Off /\ tr = Off /\ cfg = Off /\ lk = Off

NextWin == WinFind \/ WinList

WinSpec == InitWin /\ [][NextWin]_vars

\* the candidates of find_window as a set, with their rank
C15_Candidates ==
    {[hwnd |-> i, matched |-> TitleMatch(win.inp.windows[i].title),
      area |-> win.inp.windows[i].area] :
        i \in {j \in DOMAIN win.inp.windows :
                 Eligible(win.inp.windows[j]) /\ win.inp.windows[j].pid \in WinPids}}

\* C15: find_window returns a candidate that is maximal under (title matched,
\* area): no candidate is title-matched when the returned one is pid-only,
\* and no candidate of the same tier has a larger area; it returns no handle
\* only when there is no candidate.
C15_FindWindowMaximal ==
    win.pc \in {"found", "done"} =>
        IF C15_Candidates = {} THEN win.found = None
        ELSE \E b \in C15_Candidates :
                /\ win.found = Some(b.hwnd)
                /\ \A c \in C15_Candidates :
                      /\ c.matched => b.matched
                      /\ c.matched = b.matched => c.area <= b.area

\* find_window returned a title-matched window enumerated after a larger
\* pid-only window of a target process
C15_Witness ==
    /\ win.pc = "found"
    /\ \E b, c \in C15_Candidates :
         /\ win.found = Some(b.hwnd)
         /\ b.matched /\ ~c.matched /\ c.area > b.area /\ c.hwnd < b.hwnd
    /\ \E b, c \in C15_Candidates :
         /\ b.matched /\ c.matched /\ c.area < b.area /\ c.hwnd < b.hwnd

\* the handles list_matching_windows reported
C17_Listed == {win.listed[i].hwnd : i \in DOMAIN win.listed}

\* C16: when no target process is running (or tasklist could not be run), the
\* pid set is empty and no window is a candidate: find_window returns no
\* handle and list_matching_windows an empty list, whatever the windows are.
C16_NoProcessNoCandidate ==
    (win.pc = "done" /\ WinPids = {}) => (win.found = None /\ win.listed = <<>>)

\* both functions have run with no target process running while a visible,
\* ownerless window whose title contains a target is on the screen
C16_Witness ==
    /\ win.pc = "done"
    /\ win.inp.tasklist_ok
    /\ WinPids = {}
    /\ \E pid \in DOMAIN win.inp.procs : win.inp.procs[pid] = "chrome.exe"
    /\ \E i \in DOMAIN win.inp.windows :
         /\ Eligible(win.inp.windows[i]) /\ TitleMatch(win.inp.windows[i].title)
         /\ win.inp.procs[win.inp.windows[i].pid] = "chrome.exe"

\* C17: with a target process running, the candidates are the visible,
\* ownerless, titled windows that belong to a target process or whose title
\* contains a target; list_matching_windows reports exactly these, and
\* find_window returns one of them whenever there is one.
C17_FindSelectsFromListed ==
    (win.pc = "done" /\ WinPids # {}) =>
        /\ C17_Listed = {i \in DOMAIN win.inp.windows :
                           /\ Eligible(win.inp.windows[i])
                           /\ \/ win.inp.windows[i].pid \in WinPids
                              \/ TitleMatch(win.inp.windows[i].title)}
        /\ C17_Listed # {} => (win.found # None /\ Val(win.found) \in C17_Listed)

(* ============================= WindowController.set_topmost, _force_foreground *)
\* the handles and thread ids of the desktop: the target window and its
\* thread, another window, the thread that calls set_topmost, and the threads
\* the other window can belong to (the caller's or a third one); handle 0 is
\* no window and thread 0 no thread
Desk == [target |-> 1, other |-> 2, current_tid |-> 1, target_tid |-> 2, other_tids |-> {1, 3}]

\* line 114-123: _get_window_title
WindowTitle(h) == IF h = Desk.target THEN "WeCom" ELSE IF h = Desk.other THEN "notepad" ELSE ""

\* line 326: GetWindowThreadProcessId, 0 for no window
ThreadOf(h, other_tid) ==
    IF h = Desk.target THEN Desk.target_tid ELSE IF h = Desk.other THEN other_tid ELSE 0

\* a function ends by returning (ok, error): the error is the fixed part of
\* the message and the window titles the message holds; a function that ends
\* by an exception has [kind |-> "raise"], one that has not ended [kind |-> "none"]
Returns(ok, text, titles) == [kind |-> "return", ok |-> ok, text |-> text, titles |-> titles]

\* line 390-391: the handle is tested before anything else
StIsWindow ==
    /\ ff.pc = "call" /\ ff.caller = "set_topmost"
    /\ ff' = IF ff.is_window
             THEN [ff EXCEPT !.pc = "setpos"]
             ELSE [ff EXCEPT !.pc = "returned",
                             !.ret = Returns(FALSE, "IsWindow=false (1400)", {})]
    /\ UNCHANGED <<gvars, lm, cap, rcl, win, mt, tr, cfg, lk>>

\* line 397-408: SetWindowPos(HWND_TOPMOST); the system sets the flag or not,
\* whatever it answers; an exception goes to the handler of line 423
StSetWindowPos ==
    /\ ff.pc = "setpos"
    /\ \/ \E flag \in BOOLEAN : ff' = [ff EXCEPT !.pc = "exstyle", !.topmost = flag]
       \/ ff' = [ff EXCEPT !.pc = "returned",
                           !.ret = Returns(FALSE, "SetWindowPos failed", {})]
       \/ ff' = [ff EXCEPT !.pc = "returned", !.ret = Returns(FALSE, "exception", {})]
    /\ UNCHANGED <<gvars, lm, cap, rcl, win, mt, tr, cfg, lk>>

\* line 410-415: the style is read again and the flag verified
StExstyle ==
    /\ ff.pc = "exstyle"
    /\ \/ ff' = IF ff.topmost
                THEN [ff EXCEPT !.pc = "ff_enter"]
                ELSE [ff EXCEPT !.pc = "returned",
                                !.ret = Returns(FALSE, "topmost verify failed",
                                                {WindowTitle(Desk.target)})]
       \/ ff' = [ff EXCEPT !.pc = "returned", !.ret = Returns(FALSE, "exception", {})]
    /\ UNCHANGED <<gvars, lm, cap, rcl, win, mt, tr, cfg, lk>>

\* line 324-328: the foreground window and its thread are read
FfEnter ==
    /\ ff.pc = "ff_enter"
    /\ ff' = [ff EXCEPT !.pc = "ff_attach",
                        !.fg_tid = IF ff.fg # 0 THEN ThreadOf(ff.fg, ff.other_tid) ELSE 0,
                        !.attached = FALSE]
    /\ UNCHANGED <<gvars, lm, cap, rcl, win, mt, tr, cfg, lk>>

\* line 330-331: AttachThreadInput(fg_tid, current_tid, True) when the
\* foreground thread is another thread; the call joins the queues, or
\* fails, or raises
FfAttach ==
    /\ ff.pc = "ff_attach"
    /\ IF ff.fg_tid # 0 /\ ff.fg_tid # Desk.current_tid
       THEN \/ ff' = [ff EXCEPT !.pc = "ff_bring", !.attached = TRUE, !.joined = TRUE]
            \/ ff' = [ff EXCEPT !.pc = "ff_bring", !.attached = FALSE]
            \/ ff' = [ff EXCEPT !.pc = "ff_finally", !.inner = [kind |-> "raise"]]
       ELSE ff' = [ff EXCEPT !.pc = "ff_bring"]
    /\ UNCHANGED <<gvars, lm, cap, rcl, win, mt, tr, cfg, lk>>

\* line 333-334: BringWindowToTop and SetActiveWindow
FfBring ==
    /\ ff.pc = "ff_bring"
    /\ \/ ff' = [ff EXCEPT !.pc = "ff_setfg"]
       \/ ff' = [ff EXCEPT !.pc = "ff_finally", !.inner = [kind |-> "raise"]]
    /\ UNCHANGED <<gvars, lm, cap, rcl, win, mt, tr, cfg, lk>>

\* line 335-336: SetForegroundWindow; when the system accepts the request
\* the foreground window afterwards is the target, another window or none;
\* when it refuses, the foreground window stays
FfSetForeground ==
    /\ ff.pc = "ff_setfg"
    /\ \/ \E h \in {0, Desk.target, Desk.other} :
            ff' = [ff EXCEPT !.pc = "ff_verify", !.requested = "accepted", !.fg = h]
       \/ ff' = [ff EXCEPT !.pc = "ff_finally", !.requested = "refused",
                           !.inner = Returns(FALSE, "SetForegroundWindow failed", {})]
       \/ ff' = [ff EXCEPT !.pc = "ff_finally", !.inner = [kind |-> "raise"]]
    /\ UNCHANGED <<gvars, lm, cap, rcl, win, mt, tr, cfg, lk>>

\* line 337-350: the foreground window is read again and compared
FfVerify ==
    /\ ff.pc = "ff_verify"
    /\ \/ ff' = [ff EXCEPT !.pc = "ff_finally",
                           !.inner = IF ff.fg # 0 /\ ff.fg # Desk.target
                                     THEN Returns(FALSE, "foreground verify failed",
                                                  {WindowTitle(Desk.target), WindowTitle(ff.fg)})
                                     ELSE Returns(TRUE, "", {})]
       \/ ff' = [ff EXCEPT !.pc = "ff_finally", !.inner = [kind |-> "raise"]]
    /\ UNCHANGED <<gvars, lm, cap, rcl, win, mt, tr, cfg, lk>>

\* a variant of the cleanup that detaches only when the function returns a value
FfFinally_NotOnRaise ==
    /\ ff.pc = "ff_finally"
    /\ ff' = [ff EXCEPT !.pc = "ff_returned",
                        !.joined = IF /\ ff.inner.kind = "return"
                                      /\ ff.attached /\ ff.fg_tid # 0
                                      /\ ff.fg_tid # Desk.current_tid
                                   THEN FALSE ELSE @]
    /\ UNCHANGED <<gvars, lm, cap, rcl, win, mt, tr, cfg, lk>>

\* line 351-353: finally: AttachThreadInput(fg_tid, current_tid, False)
FfFinally ==
    /\ ff.pc = "ff_finally"
    /\ ff' = [ff EXCEPT !.pc = "ff_returned",
                        !.joined = IF ff.attached /\ ff.fg_tid # 0 /\ ff.fg_tid # Desk.current_tid
                                   THEN FALSE ELSE @]
    /\ UNCHANGED <<gvars, lm, cap, rcl, win, mt, tr, cfg, lk>>

\* a variant of the end of set_topmost that does not look at the result of
\* _force_foreground
StReturn_FlagOnly ==
    /\ ff.pc = "ff_returned" /\ ff.caller = "set_topmost"
    /\ ff' = [ff EXCEPT !.pc = "returned", !.ret = Returns(TRUE, "", {})]
    /\ UNCHANGED <<gvars, lm, cap, rcl, win, mt, tr, cfg, lk>>

\* line 418-424: set_topmost returns what _force_foreground returned, or the
\* exception as an error
StReturn ==
    /\ ff.pc = "ff_returned" /\ ff.caller = "set_topmost"
    /\ ff' = [ff EXCEPT !.pc = "returned",
                        !.ret = IF ff.inner.kind = "raise"
                                THEN Returns(FALSE, "exception", {})
                                ELSE IF ~ff.inner.ok THEN ff.inner
                                ELSE Returns(TRUE, "", {})]
    /\ UNCHANGED <<gvars, lm, cap, rcl, win, mt, tr, cfg, lk>>

\* a variant of the placement that restores the window and does not maximize it
AmShow_RestoreOnly ==
    /\ ff.pc = "call" /\ ff.caller = "activate_and_maximize"
    /\ ff' = IF ~ff.is_window
             THEN [ff EXCEPT !.pc = "am_returned",
                             !.ret = Returns(FALSE, "IsWindow=false (1400)", {})]
             ELSE [ff EXCEPT !.pc = "ff_enter", !.zoomed = FALSE]
    /\ UNCHANGED <<gvars, lm, cap, rcl, win, mt, tr, cfg, lk>>

\* line 364-373: activate_and_maximize tests the handle, then restores and
\* maximizes the window: after ShowWindow(SW_SHOWMAXIMIZED) the window is
\* maximized if it can be; an exception goes to the handler of line 385
AmShow ==
    /\ ff.pc = "call" /\ ff.caller = "activate_and_maximize"
    /\ \/ ff' = IF ~ff.is_window
                THEN [ff EXCEPT !.pc = "am_returned",
                                !.ret = Returns(FALSE, "IsWindow=false (1400)", {})]
                ELSE [ff EXCEPT !.pc = "ff_enter", !.zoomed = ff.maximizable]
       \/ /\ ff.is_window
          /\ ff' = [ff EXCEPT !.pc = "am_returned", !.ret = Returns(FALSE, "exception", {})]
    /\ UNCHANGED <<gvars, lm, cap, rcl, win, mt, tr, cfg, lk>>

\* line 375-386: activate_and_maximize returns the failure of
\* _force_foreground, or verifies IsZoomed and returns
AmReturn ==
    /\ ff.pc = "ff_returned" /\ ff.caller = "activate_and_maximize"
    /\ ff' = [ff EXCEPT !.pc = "am_returned",
                        !.ret = IF ff.inner.kind = "raise"
                                THEN Returns(FALSE, "exception", {})
                                ELSE IF ~ff.inner.ok THEN ff.inner
                                ELSE IF ~ff.zoomed
                                THEN Returns(FALSE, "maximize verify failed",
                                             {WindowTitle(Desk.target)})
                                ELSE Returns(TRUE, "", {})]
    /\ UNCHANGED <<gvars, lm, cap, rcl, win, mt, tr, cfg, lk>>

\* the caller calls activate_and_maximize a second time on the same handle:
\* the desktop is as the first call left it, first keeps how that call ended
AmAgain ==
    /\ ff.pc = "am_returned" /\ ff.first = None
    /\ ff' = [ff EXCEPT !.pc = "call", !.first = Some([ff EXCEPT !.first = None]),
                        !.fg_tid = 0, !.attached = FALSE, !.requested = "no",
                        !.inner = [kind |-> "none"], !.ret = [kind |-> "none"]]
    /\ UNCHANGED <<gvars, lm, cap, rcl, win, mt, tr, cfg, lk>>

\* one call of set_topmost or activate_and_maximize on a desktop: is_window
\* whether the handle is valid, fg the foreground window, other_tid the
\* thread of the other window, topmost the flag of the target, zoomed
\* whether it is maximized and maximizable whether it can be, joined whether
\* the caller's input queue is attached to the foreground thread's; then the
\* locals of the functions
InitFf ==
    /\ GuardOff
    /\ ff \in [pc : {"call"}, caller : {"set_topmost", "activate_and_maximize"},
                is_window : BOOLEAN, fg : {0, Desk.target, Desk.other},
                other_tid : Desk.other_tids, topmost : BOOLEAN, joined : {FALSE},
                zoomed : BOOLEAN, maximizable : BOOLEAN, first : {None},
                fg_tid : {0}, attached : {FALSE}, requested : {"no"},
                inner : {[kind |-> "none"]}, ret : {[kind |-> "none"]}]
    /\ lm = Off /\ cap = Off /\ rcl = Off /\ win = Off /\ mt = Off /\ tr = Off /\ cfg = Off /\ lk = Off

NextFf ==
    \/ StIsWindow \/ StSetWindowPos \/ StExstyle
    \/ FfEnter \/ FfAttach \/ FfBring \/ FfSetForeground \/ FfVerify \/ FfFinally
    \/ StReturn
    \/ AmShow \/ AmReturn \/ AmAgain

FfSpec == InitFf /\ [][NextFf]_vars

\* C18: on every exit path of _force_foreground (a value returned or an
\* exception raised) the caller's input queue is no longer attached to the
\* foreground thread's queue, and it stays so until set_topmost has returned.
C18_JoinUndone ==
    ff.pc \in {"ff_returned", "returned"} => ~ff.joined

\* _force_foreground has ended by an exception after it had joined the queues
C18_Witness ==
    /\ ff.pc = "ff_returned"
    /\ ff.attached /\ ff.inner.kind = "raise" /\ ff.requested = "no"
    /\ ~ff.joined

\* C19: _force_foreground returns success only if the foreground window it
\* read after the request is the target window.
C19_SuccessMeansForeground ==
    (ff.pc = "ff_returned" /\ ff.inner.kind = "return" /\ ff.inner.ok)
        => ff.fg = Desk.target

\* C20 as stated: set_topmost returns success only if the flag is set and the
\* foreground verification passed, and whenever the flag is set but another
\* window is foreground at the return, the result is a failure whose message
\* holds the target's title and the foreground window's title.
C20_TopmostForegroundTitles ==
    ff.pc = "returned" =>
        /\ ff.ret.ok => (ff.topmost /\ ff.inner.kind = "return" /\ ff.inner.ok)
        /\ (ff.topmost /\ ff.fg = Desk.other /\ ff.inner.kind # "none") =>
              /\ ~ff.ret.ok
              /\ ff.ret.titles = {WindowTitle(Desk.target), WindowTitle(Desk.other)}

\* C20, amended: set_topmost returns success only if the flag is set and
\* _force_foreground returned success; when the flag is set the result is a
\* failure whenever another window is foreground at the return, and its
\* message holds both titles when SetForegroundWindow accepted the request
\* and the verification read the other window; a refused request gives the
\* SetForegroundWindow message, an exception its own, both without titles.
C20_TopmostForegroundChecked ==
    ff.pc = "returned" =>
        /\ ff.ret.ok => (ff.topmost /\ ff.inner.kind = "return" /\ ff.inner.ok)
        /\ (ff.topmost /\ ff.fg = Desk.other /\ ff.inner.kind # "none") =>
              /\ ~ff.ret.ok
              /\ (ff.requested = "accepted" /\ ff.inner.kind = "return") =>
                    /\ ff.ret.text = "foreground verify failed"
                    /\ ff.ret.titles = {WindowTitle(Desk.target), WindowTitle(Desk.other)}
              /\ ff.requested = "refused" =>
                    (ff.ret.text = "SetForegroundWindow failed" /\ ff.ret.titles = {})
              /\ ff.inner.kind = "raise" => (ff.ret.text = "exception" /\ ff.ret.titles = {})

\* set_topmost has returned the verification failure: the flag is set, the
\* request was accepted and the other window is foreground
C20_Witness ==
    /\ ff.pc = "returned"
    /\ ff.topmost /\ ff.requested = "accepted" /\ ff.fg = Desk.other
    /\ ff.attached
    /\ ~ff.ret.ok /\ ff.ret.text = "foreground verify failed"

\* the handle stays valid, the window takes the maximized state and the
\* foreground when asked, and no call raises, in the call that ended as r
C21_Stable(r) ==
    /\ r.is_window /\ r.maximizable
    /\ r.requested = "accepted" /\ r.fg = Desk.target /\ r.inner.kind = "return"

\* C21: when activate_and_maximize is called twice in a row on a handle that
\* stays valid, maximized and foreground, both calls return success and the
\* window is maximized and foreground after the second call as it was after
\* the first.
C21_ActivateIdempotent ==
    (ff.pc = "am_returned" /\ ff.first # None /\ C21_Stable(Val(ff.first)) /\ C21_Stable(ff)) =>
        /\ Val(ff.first).ret.ok /\ ff.ret.ok
        /\ ff.zoomed = Val(ff.first).zoomed /\ ff.zoomed
        /\ ff.fg = Val(ff.first).fg
        /\ ~ff.joined

\* the second call has returned success on a window that took the maximized
\* state and the foreground in both calls
C21_Witness ==
    /\ ff.pc = "am_returned" /\ ff.first # None
    /\ C21_Stable(Val(ff.first)) /\ C21_Stable(ff)
    /\ ff.attached /\ ff.ret.ok

(* ================================================= MaxAndTopAction.execute *)
\* line 439-503: the value execute returns and the calls it makes, in order,
\* when find_window answers e.find1 and then e.find2 (0 is no window),
\* activate_and_maximize e.act1 and then e.act2, set_topmost e.top1 and then
\* e.top2 ("ok" or the error), and capture_desktop succeeds or not. An error
\* that names the window holds the decimal handle, and line 459 / 479 look
\* for the text "1400" anywhere in the message.
execute(e) ==
    LET Digits1400(h) == \E k \in 0..5 : (h \div (10 ^ k)) % 10000 = 1400
        Has1400(err, h) ==
            \/ err = "IsWindow=false (1400)"
            \/ err \in {"maximize verify failed hwnd=", "topmost verify failed hwnd="}
                  /\ Digits1400(h)
        Call(op, h) == <<[op |-> op, hwnd |-> h]>>
        Describe(h) == IF e.has_describe THEN Call("describe_window", h) ELSE <<>>
        Failure(calls) == [ok |-> FALSE, screenshot_path |-> None,
                           reason |-> Some("failed"), calls |-> calls]
        \* line 457-472 and 477-491: a placement call, its single retry, and
        \* whether execute goes on after it
        Place(op, h, first, second) ==
            IF first = "ok"
              THEN [go |-> TRUE, hwnd |-> h, calls |-> Call(op, h) \o Describe(h)]
            ELSE IF ~Has1400(first, h)
              THEN [go |-> FALSE, hwnd |-> h, calls |-> Call(op, h)]
            ELSE IF e.find2 = 0
              THEN [go |-> FALSE, hwnd |-> h, calls |-> Call(op, h) \o Call("find_window", 0)]
            ELSE [go |-> FALSE, hwnd |-> e.find2,
                  calls |-> Call(op, h) \o Call("find_window", 0) \o Call(op, e.find2)
                            \o (IF second = "ok" THEN Describe(e.find2) ELSE <<>>)]
        found == Call("find_window", 0)
        act == Place("activate_and_maximize", e.find1, e.act1, e.act2)
        activated == found \o Describe(e.find1) \o act.calls
        top == Place("set_topmost", act.hwnd, e.top1, e.top2)
        topped == activated \o top.calls
        shot == topped \o Call("capture_desktop", 0)
    IN IF e.find1 = 0 THEN Failure(found)
       ELSE IF ~act.go THEN Failure(activated)
       ELSE IF ~top.go THEN Failure(topped)
       ELSE IF ~e.shot THEN Failure(shot)
       ELSE [ok |-> TRUE, screenshot_path |-> Some("max_and_top.png"), reason |-> None,
             calls |-> shot]

\* a variant of execute that goes on to the capture whatever the placement
\* calls answered
MtExecute_IgnoreFailure ==
    /\ mt.pc = "call"
    /\ mt' = [mt EXCEPT !.pc = "done",
                        !.out = IF mt.e.shot /\ mt.e.find1 # 0
                                THEN [execute(mt.e) EXCEPT
                                        !.ok = TRUE, !.screenshot_path = Some("max_and_top.png"),
                                        !.reason = None,
                                        !.calls = @ \o <<[op |-> "capture_desktop", hwnd |-> 0]>>]
                                ELSE execute(mt.e)]
    /\ UNCHANGED <<gvars, lm, cap, rcl, win, ff, tr, cfg, lk>>

\* execute is called and returns
MtExecute ==
    /\ mt.pc = "call"
    /\ mt' = [mt EXCEPT !.pc = "done", !.out = execute(mt.e)]
    /\ UNCHANGED <<gvars, lm, cap, rcl, win, ff, tr, cfg, lk>>

\* the answers of the controller and of capture_desktop one call can meet;
\* the handles are window handles as decimal numbers
InitMt ==
    /\ GuardOff
    /\ mt \in [pc : {"call"}, out : {None},
                e : [find1 : {0, 66052, 214004}, find2 : {0, 66052, 214004},
                     has_describe : BOOLEAN,
                     act1 : {"ok", "IsWindow=false (1400)", "maximize verify failed hwnd=",
                             "SetForegroundWindow failed"},
                     act2 : {"ok", "IsWindow=false (1400)", "maximize verify failed hwnd="},
                     top1 : {"ok", "IsWindow=false (1400)", "topmost verify failed hwnd=",
                             "SetWindowPos failed"},
                     top2 : {"ok", "IsWindow=false (1400)", "topmost verify failed hwnd="},
                     shot : BOOLEAN]]
    /\ lm = Off /\ cap = Off /\ rcl = Off /\ win = Off /\ ff = Off /\ tr = Off /\ cfg = Off /\ lk = Off

MtSpec == InitMt /\ [][MtExecute]_vars

\* the calls of one operation in the result of execute
C22_Calls(op) == {i \in DOMAIN mt.out.calls : mt.out.calls[i].op = op}

\* the first placement call that failed, and its error ("none" if no call failed)
C22_Failed ==
    IF mt.e.find1 = 0 THEN [op |-> "none", err |-> "none"]
    ELSE IF mt.e.act1 # "ok" THEN [op |-> "activate_and_maximize", err |-> mt.e.act1]
    ELSE IF mt.e.top1 # "ok" THEN [op |-> "set_topmost", err |-> mt.e.top1]
    ELSE [op |-> "none", err |-> "none"]

\* C22: in one execute find_window is called at most twice; a placement call
\* that fails with InvalidHandle is followed by exactly one more find_window
\* and, if a window is found, by exactly one retry of that call; a failure
\* that is not InvalidHandle is followed by no find_window and no retry.
C22_RetryOnlyOnInvalidHandle ==
    mt.pc = "done" =>
        /\ Cardinality(C22_Calls("find_window")) <= 2
        /\ (C22_Failed.op # "none" /\ C22_Failed.err = "IsWindow=false (1400)") =>
              /\ Cardinality(C22_Calls("find_window")) = 2
              /\ Cardinality(C22_Calls(C22_Failed.op)) = IF mt.e.find2 = 0 THEN 1 ELSE 2
        /\ (C22_Failed.op # "none" /\ C22_Failed.err # "IsWindow=false (1400)") =>
              /\ Cardinality(C22_Calls("find_window")) = 1
              /\ Cardinality(C22_Calls(C22_Failed.op)) = 1

\* the calls of execute other than describe_window, by name
C24_Steps ==
    LET steps == SelectSeq(mt.out.calls, LAMBDA c : c.op # "describe_window")
    IN [i \in DOMAIN steps |-> steps[i].op]

C37_SuccessfulRetryGoesOn ==
    (mt.pc = "done" /\ mt.e.find1 # 0 /\ mt.e.find2 # 0) =>
        /\ (mt.e.act1 = "IsWindow=false (1400)" /\ mt.e.act2 = "ok") =>
              /\ \E i \in DOMAIN mt.out.calls :
                    mt.out.calls[i] = [op |-> "set_topmost", hwnd |-> mt.e.find2]
              /\ (mt.e.top1 = "ok" /\ mt.e.shot) => mt.out.ok
        /\ (mt.e.act1 = "ok" /\ mt.e.top1 = "IsWindow=false (1400)" /\ mt.e.top2 = "ok") =>
              /\ \E i \in DOMAIN mt.out.calls : mt.out.calls[i].op = "capture_desktop"
              /\ mt.e.shot => mt.out.ok

(* ------------------------------------------- guard tick and a stale handle *)
\* the step of thread t is a placement call named op that answered
\* InvalidHandle: the call is logged, the error text carries 1400 and the
\* placement timestamp of this tick was not written
C23_InvalidHandleStep(t, op, pc) ==
    /\ wk[t].pc = pc /\ wk'[t].calls = Append(wk[t].calls, op)
    /\ ctx'.meta.last_error = Some(op \o "_failed: IsWindow=false (1400)")
    /\ ctx'.meta.last_max_top_at # Some(wk[t].now_ts)

\* C23: in a guard tick, a placement call (activate_and_maximize or
\* set_topmost) that reports InvalidHandle is followed, within its handling,
\* by exactly one more find_window and exactly one retry of that call
C23_TickRetriesStaleHandle ==
    [][\A t \in Threads :
         /\ C23_InvalidHandleStep(t, "activate_and_maximize", "maximize") =>
                /\ Count(wk'[t].calls, "find_window") = 2
                /\ Count(wk'[t].calls, "activate_and_maximize") = 2
         /\ C23_InvalidHandleStep(t, "set_topmost", "topmost") =>
                /\ Count(wk'[t].calls, "find_window") = 2
                /\ Count(wk'[t].calls, "set_topmost") = 2]_vars

(* ------------------------------------------------------ TemplateRepository *)
\* Names are sequences of pieces. A directory under the template root is
\* <<width, separator, height>> or a one-piece name; a target is a sequence
\* of characters, the two mapped targets being one piece each.
MaxFolders == 2

\* line 52-80: _pick_resolution_folder; available is the listing of line 55
pick_resolution_folder(available, resolution) ==
    LET \* line 66: folder.split("-")
        split(folder) == IF Len(folder) = 3 /\ folder[2] = "-" THEN <<folder[1], folder[3]>> ELSE <<folder>>
        Abs(n) == IF n < 0 THEN 0 - n ELSE n
        distance(folder) == Abs(split(folder)[1] - Val(resolution)[1]) + Abs(split(folder)[2] - Val(resolution)[2])
        RECURSIVE Loop(_, _)
        Loop(i, best) ==
            IF i > Len(available) THEN best
            ELSE IF Len(split(available[i])) # 2 THEN Loop(i + 1, best)
            ELSE IF IsNone(best) \/ distance(available[i]) < distance(Val(best))
                   THEN Loop(i + 1, Some(available[i]))
                   ELSE Loop(i + 1, best)
    IN IF available = <<>> THEN None
       ELSE IF IsNone(resolution) THEN Some(available[1])
       ELSE Loop(1, None)

\* line 27-41: get_template_path; exists is the set of folders that hold the file
get_template_path(available, exists, target, resolution) ==
    LET \* line 7-10: DEFAULT_TARGET_MAPPING (the keys are the two Chinese target names)
        DEFAULT_TARGET_MAPPING ==
            (<<"msg_input">> :> <<"input_box", ".png">>) @@ (<<"msg_send_button">> :> <<"send_button", ".png">>)
        RECURSIVE lstrip(_)
        lstrip(q) == IF q # <<>> /\ Head(q) = " " THEN lstrip(Tail(q)) ELSE q
        RECURSIVE rstrip(_)
        rstrip(q) == IF q # <<>> /\ q[Len(q)] = " " THEN rstrip(SubSeq(q, 1, Len(q) - 1)) ELSE q
        stripped == rstrip(lstrip(target))
        normalized == [i \in DOMAIN stripped |-> IF stripped[i] = " " THEN "_" ELSE stripped[i]]
        \* line 43-50: _resolve_filename
        filename == IF target \in DOMAIN DEFAULT_TARGET_MAPPING THEN Some(DEFAULT_TARGET_MAPPING[target])
                    ELSE IF normalized = <<>> THEN None
                    ELSE Some(normalized \o <<".png">>)
        folder == pick_resolution_folder(available, resolution)
    IN IF IsNone(filename) THEN None
       ELSE IF IsNone(folder) THEN None
       ELSE IF Val(folder) \in exists THEN Some(<<Val(folder), Val(filename)>>)
       ELSE None

\* get_template_path is called and returns
TrCall ==
    /\ tr.pc = "call"
    /\ tr' = [tr EXCEPT !.pc = "done",
                        !.out = get_template_path(tr.available, tr.exists, tr.target, tr.resolution)]
    /\ UNCHANGED <<gvars, lm, cap, rcl, win, ff, mt, cfg, lk>>

\* line 82-90: the directories of the template root in the order os.listdir
\* gives them; every path that exists lies in one of them
InitTr ==
    /\ GuardOff
    /\ tr \in [pc : {"call"}, out : {None},
               available : UNION {[1..n -> {<<1920, "x", 1080>>, <<1280, "x", 720>>, <<1920, "-", 1080>>,
                                            <<1280, "-", 720>>, <<"common">>}] : n \in 0..MaxFolders},
               exists : SUBSET {<<1920, "x", 1080>>, <<1280, "x", 720>>, <<1920, "-", 1080>>,
                                <<1280, "-", 720>>, <<"common">>},
               target : {<<"msg_input">>, <<"msg_send_button">>, <<" ">>, <<"a", " ", "b">>, <<" ", "a", " ">>},
               resolution : {None, Some(<<1366, 768>>), Some(<<1920, 1080>>)}]
    /\ \A i, j \in DOMAIN tr.available : i # j => tr.available[i] # tr.available[j]
    /\ \A f \in tr.exists : \E i \in DOMAIN tr.available : tr.available[i] = f
    /\ lm = Off /\ cap = Off /\ rcl = Off /\ win = Off /\ ff = Off /\ mt = Off /\ cfg = Off /\ lk = Off

TrSpec == InitTr /\ [][TrCall]_vars

\* the resolution folders of the template root in the naming WIDTHxHEIGHT,
\* and the distance of one to the current resolution
C25_Folders == {tr.available[i] : i \in DOMAIN tr.available} \cap {<<1920, "x", 1080>>, <<1280, "x", 720>>}
C25_Distance(f) ==
    LET dw == f[1] - Val(tr.resolution)[1]
        dh == f[3] - Val(tr.resolution)[2]
    IN (IF dw < 0 THEN 0 - dw ELSE dw) + (IF dh < 0 THEN 0 - dh ELSE dh)

\* C25: for a resolution (w, h), get_template_path resolves inside the folder
\* named WIDTHxHEIGHT that minimizes |W - w| + |H - h| among those present;
\* it returns none when that folder lacks the target's file or when no
\* resolution folder exists
C25_NearestResolutionFolder ==
    (tr.pc = "done" /\ ~IsNone(tr.resolution) /\ tr.target # <<" ">>
        /\ \A i \in DOMAIN tr.available : Len(tr.available[i]) = 3 /\ tr.available[i][2] = "x") =>
        IF C25_Folders = {} THEN IsNone(tr.out)
        ELSE LET chosen == CHOOSE f \in C25_Folders : \A g \in C25_Folders : C25_Distance(f) <= C25_Distance(g)
             IN IF chosen \in tr.exists THEN ~IsNone(tr.out) /\ Val(tr.out)[1] = chosen
                                        ELSE IsNone(tr.out)

(* ------------------------------------------- guard tick: last_error, frames *)
\* C36: at the end of every guard tick that returns normally, last_error is
\* null if and only if no step of the tick failed: the window was found,
\* every placement call made returned ok, and a locate pass made had a success
C36_LastErrorIffStepFailed ==
    \A t \in Threads :
        (tstate[t] = "alive" /\ wk[t].pc = "returned") =>
            (IsNone(ctx.meta.last_error) <=> wk[t].failed = {})

\* C38: the two cached positions come from one capture; stated for a tick
\* that located both targets and writes both positions: its locate pass
\* captured the desktop once
C38_PositionsFromOneCapture ==
    [][\A t \in Threads :
         (/\ wk[t].pc = "update" /\ wk'[t].pc = "clear_error"
          /\ ~IsNone(wk[t].input_center) /\ ~IsNone(wk[t].send_center)
          /\ ctx'.input_center_position = wk[t].input_center
          /\ ctx'.send_button_position = wk[t].send_center) =>
             Count(wk[t].calls, "capture_desktop") = 1]_vars

(* --------------------------------------------- WeComGuard.update_config *)
\* durations are counted in tenths of a second: 0.2 s is 2, 1.0 s is 10

\* the builtin max of two numbers
max(a, b) == IF a >= b THEN a ELSE b

\* wecom_guard.py line 13-29: __init__ keeps the two intervals above their floors
NewGuardConfig(interval_sec, locate_interval_sec) ==
    [pc |-> "tick", worker |-> 1,
     interval_sec |-> max(2, interval_sec),
     locate_interval_sec |-> max(10, locate_interval_sec),
     last_call |-> None, check |-> None, sleep_sec |-> None]

\* a variant of update_config that stores what it is passed
update_config_NoFloor(g, interval_sec, locate_interval_sec) ==
    [g EXCEPT !.interval_sec = IF IsNone(interval_sec) THEN @ ELSE Val(interval_sec),
              !.locate_interval_sec = IF IsNone(locate_interval_sec) THEN @ ELSE Val(locate_interval_sec)]

\* wecom_guard.py line 46-50: update_config(interval_sec=None, locate_interval_sec=None)
update_config(g, interval_sec, locate_interval_sec) ==
    [g EXCEPT !.interval_sec = IF IsNone(interval_sec) THEN @ ELSE max(2, Val(interval_sec)),
              !.locate_interval_sec = IF IsNone(locate_interval_sec) THEN @
                                      ELSE max(10, Val(locate_interval_sec))]

\* api/main.py line 172: a request thread calls guard.update_config while the
\* worker runs
CfgUpdate ==
    /\ cfg.pc \in {"tick", "sleep"}
    /\ \E interval_sec \in {None, Some(1), Some(3)}, locate_interval_sec \in {None, Some(5), Some(20)} :
         cfg' = [update_config(cfg, interval_sec, locate_interval_sec) EXCEPT
                    !.last_call = Some([interval_sec |-> interval_sec,
                                        locate_interval_sec |-> locate_interval_sec])]
    /\ UNCHANGED <<gvars, lm, cap, rcl, win, ff, mt, tr, lk>>

\* wecom_guard.py line 56-58, 109: the worker runs tick, whose staleness check
\* compares the age of the cached positions with self.locate_interval_sec
CfgTick ==
    /\ cfg.pc = "tick"
    /\ \E age \in {5, 10, 20, 30} :
         cfg' = [cfg EXCEPT !.pc = "sleep",
                            !.check = Some([age |-> age, used |-> cfg.locate_interval_sec,
                                            locate |-> age >= cfg.locate_interval_sec])]
    /\ UNCHANGED <<gvars, lm, cap, rcl, win, ff, mt, tr, lk>>

\* wecom_guard.py line 61-63: sleep_sec = max(0.0, self.interval_sec - elapsed);
\* the same worker goes round the loop
CfgSleep ==
    /\ cfg.pc = "sleep"
    /\ \E elapsed \in {0, 1, 4} :
         cfg' = [cfg EXCEPT !.pc = "tick",
                            !.sleep_sec = Some([elapsed |-> elapsed,
                                                timeout |-> max(0, cfg.interval_sec - elapsed)])]
    /\ UNCHANGED <<gvars, lm, cap, rcl, win, ff, mt, tr, lk>>

InitCfg ==
    /\ GuardOff
    /\ \E interval_sec \in {1, 2, 5}, locate_interval_sec \in {5, 10, 30} :
         cfg = NewGuardConfig(interval_sec, locate_interval_sec)
    /\ lm = Off /\ cap = Off /\ rcl = Off /\ win = Off /\ ff = Off /\ mt = Off /\ tr = Off /\ lk = Off

CfgSpec == InitCfg /\ [][CfgUpdate \/ CfgTick \/ CfgSleep]_vars

\* C35: after construction and after any sequence of update_config calls the
\* two intervals are at or above their floors (0.2 s and 1.0 s); a call of
\* update_config leaves alone the interval it is passed as null and the
\* worker; the staleness check of the next tick compares with the
\* locate_interval_sec of the last call that passed one, and the next idle
\* sleep is computed from the interval_sec of the last call that passed one
C35_ConfigFloorsAndUse ==
    /\ [](cfg.interval_sec >= 2 /\ cfg.locate_interval_sec >= 10)
    /\ [][cfg'.last_call # cfg.last_call =>
            LET call == Val(cfg'.last_call)
            IN /\ IsNone(call.interval_sec) => cfg'.interval_sec = cfg.interval_sec
               /\ IsNone(call.locate_interval_sec) => cfg'.locate_interval_sec = cfg.locate_interval_sec
               /\ ~IsNone(call.interval_sec) => cfg'.interval_sec = max(2, Val(call.interval_sec))
               /\ ~IsNone(call.locate_interval_sec) =>
                      cfg'.locate_interval_sec = max(10, Val(call.locate_interval_sec))
               /\ cfg'.worker = cfg.worker /\ cfg'.pc = cfg.pc]_vars
    /\ [][(cfg.pc = "tick" /\ cfg'.pc = "sleep" /\ ~IsNone(cfg.last_call)
             /\ ~IsNone(Val(cfg.last_call).locate_interval_sec)) =>
            LET c == Val(cfg'.check)
            IN /\ c.used = max(10, Val(Val(cfg.last_call).locate_interval_sec))
               /\ c.locate <=> c.age >= c.used]_vars
    /\ [][(cfg.pc = "sleep" /\ cfg'.pc = "tick" /\ ~IsNone(cfg.last_call)
             /\ ~IsNone(Val(cfg.last_call).interval_sec)) =>
            LET s == Val(cfg'.sleep_sec)
            IN s.timeout = max(0, max(2, Val(Val(cfg.last_call).interval_sec)) - s.elapsed)]_vars

\* update_config(0.1, 2.0) was called on a guard built with other values; the
\* tick after it compared an age of 2.0 s with 2.0 s and located, and the
\* sleep after it lasted 0.2 s less the 0.1 s the tick took
C35_Witness ==
    /\ cfg.pc = "tick"
    /\ cfg.last_call = Some([interval_sec |-> Some(1), locate_interval_sec |-> Some(20)])
    /\ cfg.interval_sec = 2
    /\ cfg.check = Some([age |-> 20, used |-> 20, locate |-> TRUE])
    /\ cfg.sleep_sec = Some([elapsed |-> 1, timeout |-> 1])

(* --------------------------------- CAPTURE_LOCK and RuntimeContext._lock *)
\* the guard thread (thread 1) and the request threads
MaxLkThreads == 3
LkThreads == 1..MaxLkThreads

\* the lock operations a call makes, in order: "cap+" / "cap-" enter and
\* leave a `with CAPTURE_LOCK:` block, "ctx+" / "ctx-" enter and leave a
\* `with self._lock:` block of a RuntimeContext method
LkProgram(name) ==
    CASE name = "tick" ->
           \* wecom_guard.py line 69 mark_guard_tick, 103 snapshot,
           \* 120-121 locate twice (locator.py 109, screenshot.py 35 / 46),
           \* 132 update_positions, 137 set_last_error
           <<"ctx+", "ctx-", "ctx+", "ctx-",
             "cap+", "cap+", "cap-", "cap-", "cap+", "cap+", "cap-", "cap-",
             "ctx+", "ctx-", "ctx+", "ctx-">>
      [] name = "execute" ->
           \* send_message_action.py line 63 snapshot, 78 with CAPTURE_LOCK,
           \* locator.py 166 with CAPTURE_LOCK, screenshot.py 35 / 46,
           \* 110 with CAPTURE_LOCK (draw_rect), 140 update_positions,
           \* 210 capture_desktop
           <<"ctx+", "ctx-",
             "cap+", "cap+", "cap+", "cap-", "cap-", "cap-",
             "cap+", "cap-",
             "ctx+", "ctx-",
             "cap+", "cap-">>
      [] name = "snapshot" -> <<"ctx+", "ctx-">>   \* api/main.py line 150
      [] name = "capture" -> <<"cap+", "cap-">>    \* api/main.py line 104

\* the lock operation thread p makes next ("none" outside a call)
LkOp(p) == IF lk.th[p].i = 0 THEN "none" ELSE LkProgram(lk.th[p].prog)[lk.th[p].i]

\* thread p once its next operation is done
LkAfter(p) ==
    IF lk.th[p].i = Len(LkProgram(lk.th[p].prog)) THEN [prog |-> "none", i |-> 0]
    ELSE [lk.th[p] EXCEPT !.i = @ + 1]

\* the guard's loop starts a tick; a request thread starts a handler
LkStart(p) ==
    /\ lk.th[p].i = 0
    /\ \E prog \in IF p = 1 THEN {"tick"} ELSE {"execute", "snapshot", "capture"} :
         lk' = [lk EXCEPT !.th[p] = [prog |-> prog, i |-> 1]]
    /\ UNCHANGED <<gvars, lm, cap, rcl, win, ff, mt, tr, cfg>>

\* a variant of the capture lock that is a plain Lock
LkAcquireCapture_NotReentrant(p) ==
    /\ LkOp(p) = "cap+"
    /\ lk.cap_owner = 0
    /\ lk' = [lk EXCEPT !.cap_owner = p, !.cap_depth = 1, !.th[p] = LkAfter(p)]
    /\ UNCHANGED <<gvars, lm, cap, rcl, win, ff, mt, tr, cfg>>

\* screenshot.py line 7: CAPTURE_LOCK = threading.RLock(); acquire succeeds
\* when the lock is free or owned by the caller
LkAcquireCapture(p) ==
    /\ LkOp(p) = "cap+"
    /\ lk.cap_owner \in {0, p}
    /\ lk' = [lk EXCEPT !.cap_owner = p, !.cap_depth = @ + 1, !.th[p] = LkAfter(p)]
    /\ UNCHANGED <<gvars, lm, cap, rcl, win, ff, mt, tr, cfg>>

\* the end of a `with CAPTURE_LOCK:` block
LkReleaseCapture(p) ==
    /\ LkOp(p) = "cap-"
    /\ lk' = [lk EXCEPT !.cap_depth = @ - 1, !.cap_owner = IF lk.cap_depth = 1 THEN 0 ELSE @,
                        !.th[p] = LkAfter(p)]
    /\ UNCHANGED <<gvars, lm, cap, rcl, win, ff, mt, tr, cfg>>

\* runtime_context.py line 22: self._lock = threading.Lock(); line 39, 49,
\* 65, 79, 84, 89: with self._lock:
LkAcquireContext(p) ==
    /\ LkOp(p) = "ctx+"
    /\ lk.ctx_owner = 0
    /\ lk' = [lk EXCEPT !.ctx_owner = p, !.th[p] = LkAfter(p)]
    /\ UNCHANGED <<gvars, lm, cap, rcl, win, ff, mt, tr, cfg>>

\* the end of a `with self._lock:` block
LkReleaseContext(p) ==
    /\ LkOp(p) = "ctx-"
    /\ lk' = [lk EXCEPT !.ctx_owner = 0, !.th[p] = LkAfter(p)]
    /\ UNCHANGED <<gvars, lm, cap, rcl, win, ff, mt, tr, cfg>>

InitLk ==
    /\ GuardOff
    /\ lk = [cap_owner |-> 0, cap_depth |-> 0, ctx_owner |-> 0,
             th |-> [p \in LkThreads |-> [prog |-> "none", i |-> 0]]]
    /\ lm = Off /\ cap = Off /\ rcl = Off /\ win = Off /\ ff = Off /\ mt = Off /\ tr = Off /\ cfg = Off

NextLk ==
    \E p \in LkThreads :
        \/ LkStart(p)
        \/ LkAcquireCapture(p) \/ LkReleaseCapture(p)
        \/ LkAcquireContext(p) \/ LkReleaseContext(p)

LkSpec == InitLk /\ [][NextLk]_vars

\* the operations inside the locks terminate, and a thread waiting for a
\* lock that is released again and again gets it at some release
FairLkSpec ==
    /\ LkSpec
    /\ \A p \in LkThreads :
         /\ WF_vars(LkReleaseCapture(p)) /\ WF_vars(LkReleaseContext(p))
         /\ SF_vars(LkAcquireCapture(p)) /\ SF_vars(LkAcquireContext(p))

\* thread p can make its next lock operation
C39_CanStep(p) ==
    CASE LkOp(p) = "cap+" -> ENABLED LkAcquireCapture(p)
      [] LkOp(p) = "ctx+" -> ENABLED LkAcquireContext(p)
      [] OTHER -> TRUE

====
